---------------------------- MODULE Spec2Model ----------------------------
(***************************************************************************)
(* The CDISC Library MCP server (src/main.py): eighteen tool functions,    *)
(* each reading the credential from the environment, validating its        *)
(* identifiers against static allow-lists, building the request URL,       *)
(* issuing one HTTP GET, shaping and serializing the decoded JSON body and *)
(* capping the length of the returned string.                              *)
(*                                                                         *)
(* Strings that can grow long (serialized payloads, upstream bodies) are   *)
(* kept as texts: sequences of chunks [s, n], a chunk standing for the     *)
(* first n characters of s repeated for ever.  A literal is (s, Len(s)),   *)
(* a run of 129991 'x' is ("x", 129991), a literal cut by a slice keeps    *)
(* its s and a smaller n.  Lengths and slices are exact.                   *)
(***************************************************************************)
EXTENDS Integers, Sequences, FiniteSets, TLC

VARIABLES
    api_key,      \* os.getenv("CDISC_API_KEY"): None, "" or a key
    inv,          \* the invocations: inv[p] is the frame of tool call p
    http_count,   \* GET requests issued so far, over all invocations
    ncalls,       \* tool invocations started so far
    shape         \* a decoded tree in the hands of the response shapers

vars == <<api_key, inv, http_count, ncalls, shape>>

-----------------------------------------------------------------------------
(* Bounds of the model. *)

\* number of tool invocations one behaviour makes
MaxCalls == 2

-----------------------------------------------------------------------------
(* Python values and built-ins. *)

\* Python's None, for an unset environment variable or an omitted argument
None == "<None>"

\* a test that takes every str, the empty one too, as supplied
IsNotNone(x) == x # None

\* bool(x) of a str-or-None value: None and "" are falsy
Truthy(x) == x # None /\ x # ""

\* x in [...] on a list of strings: exact, case-sensitive equality
InList(x, list) == \E i \in 1..Len(list) : list[i] = x

\* key in dict, dict[key] and dict.keys() of a dict literal kept in insertion order
HasKey(d, key) == \E i \in 1..Len(d) : d[i].k = key
GetItem(d, key) == (CHOOSE e \in {d[i] : i \in 1..Len(d)} : e.k = key).v
Keys(d) == [i \in 1..Len(d) |-> d[i].k]

\* a string literal as a text chunk, and a run of n copies of the character c
Lit(s) == [s |-> s, n |-> Len(s)]
Run(c, n) == [s |-> c, n |-> n]

\* len(text): the lengths of the chunks, summed by halves
RECURSIVE TextLen(_)
TextLen(t) ==
    IF Len(t) = 0 THEN 0
    ELSE IF Len(t) = 1 THEN t[1].n
    ELSE LET m == Len(t) \div 2
         IN  TextLen(SubSeq(t, 1, m)) + TextLen(SubSeq(t, m + 1, Len(t)))

\* text[:k]: the chunks that end within the first k characters, then the part
\* of the next chunk that is left of character k
Take(t, k) ==
    LET Before(i) == TextLen(SubSeq(t, 1, i - 1))
        w == Cardinality({i \in 1..Len(t) : Before(i) < k /\ Before(i) + t[i].n <= k})
    IN  SubSeq(t, 1, w)
        \o (IF w < Len(t) /\ Before(w + 1) < k
            THEN <<[t[w + 1] EXCEPT !.n = k - Before(w + 1)]>>
            ELSE <<>>)

\* sep.join(items) of a list of strings
Join(sep, items) ==
    [i \in 1..(2 * Len(items) - 1) |->
        IF i % 2 = 1 THEN Lit(items[(i + 1) \div 2]) ELSE Lit(sep)]

-----------------------------------------------------------------------------
(* Decoded JSON values (response.json()) and json.dumps.                   *)
(*   object  [t |-> "dict", kv |-> <<[k |-> key, v |-> value], ...>>]      *)
(*   array   [t |-> "list", items |-> <<value, ...>>]                      *)
(*   string  [t |-> "str", s |-> c, n |-> n]   the chunk (c, n)            *)
(*   null    [t |-> "null"]                                                *)

JObj(kv) == [t |-> "dict", kv |-> kv]
JList(items) == [t |-> "list", items |-> items]
JStr(s) == [t |-> "str", s |-> s, n |-> Len(s)]
JPad(n) == [t |-> "str", s |-> "x", n |-> n]
JNull == [t |-> "null"]
KV(k, v) == [k |-> k, v |-> v]

isinstance_dict(v) == v.t = "dict"
isinstance_list(v) == v.t = "list"

\* 'key' in obj, obj[key] and obj.get(key) of a decoded object
InDict(obj, key) == \E i \in 1..Len(obj.kv) : obj.kv[i].k = key
DictGet(obj, key) ==
    IF InDict(obj, key)
    THEN (CHOOSE e \in {obj.kv[i] : i \in 1..Len(obj.kv)} : e.k = key).v
    ELSE JNull

\* json.dumps(value, separators=(isep, ksep)); the default is (", ", ": ")
RECURSIVE dumps(_, _, _), dumps_items(_, _, _), dumps_kv(_, _, _)
dumps(v, isep, ksep) ==
    CASE v.t = "dict" -> <<Lit("{")>> \o dumps_kv(v.kv, isep, ksep) \o <<Lit("}")>>
      [] v.t = "list" -> <<Lit("[")>> \o dumps_items(v.items, isep, ksep) \o <<Lit("]")>>
      [] v.t = "str"  -> <<Lit("\""), [s |-> v.s, n |-> v.n], Lit("\"")>>
      [] v.t = "null" -> <<Lit("null")>>
dumps_items(items, isep, ksep) ==
    IF items = <<>> THEN <<>>
    ELSE dumps(Head(items), isep, ksep)
         \o (IF Len(items) = 1 THEN <<>> ELSE <<Lit(isep)>>)
         \o dumps_items(Tail(items), isep, ksep)
dumps_kv(kv, isep, ksep) ==
    IF kv = <<>> THEN <<>>
    ELSE <<Lit("\""), Lit(Head(kv).k), Lit("\""), Lit(ksep)>>
         \o dumps(Head(kv).v, isep, ksep)
         \o (IF Len(kv) = 1 THEN <<>> ELSE <<Lit(isep)>>)
         \o dumps_kv(Tail(kv), isep, ksep)

json_dumps(v) == dumps(v, ", ", ": ")
json_dumps_compact(v) == dumps(v, ",", ":")

-----------------------------------------------------------------------------
(* The static allow-lists. *)

ALLOWED_sdtmig_class ==
    <<"GeneralObservations", "Interventions", "Events", "Findings", "FindingsAbout",
    "SpecialPurpose", "TrialDesign", "StudyReference", "Relationship">>

ALLOWED_sdtmig_dataset ==
    <<"AG", "CM", "EC", "EX", "ML", "PR", "SU", "AE", "BE", "CE", "DS", "DV", "HO", "MH", "BS",
    "CP", "DA", "DD", "EG", "FT", "GF", "IE", "IS", "LB", "MB", "MI", "MK", "MS", "NV", "OE",
    "PC", "PE", "PP", "QS", "RE", "RP", "RS", "SC", "SS", "TR", "TU", "UR", "VS", "FA", "SR",
    "CO", "DM", "SE", "SM", "SV", "TA", "TD", "TE", "TI">>

ALLOWED_sdtm_model_class ==
    <<"GeneralObservations", "Interventions", "Events", "Findings", "FindingsAbout",
    "SpecialPurpose", "AssociatedPersons", "TrialDesign", "StudyReference", "Relationship">>

ALLOWED_sdtm_model_dataset ==
    <<"DM", "CO", "SE", "SJ", "SV", "SM", "TE", "TA", "TX", "TT", "TP", "TV", "TD", "TM", "TI",
    "TS", "AC", "DI", "OI", "RELREC", "SUPPQUAL", "POOLDEF", "RELSUB", "RELREF", "DR",
    "APRELSUB", "RELSPEC">>

ALLOWED_sendig_class ==
    <<"GeneralObservations", "SpecialPurpose", "Interventions", "Events", "Findings",
    "TrialDesign", "Relationship">>

ALLOWED_sendig_dataset ==
    <<"DM", "CO", "SE", "EX", "DS", "BW", "BG", "CL", "DD", "FW", "LB", "MA", "MI", "OM", "PM",
    "PC", "PP", "SC", "TF", "VS", "EG", "CV", "RE", "TE", "TA", "TX", "TS", "RELREC",
    "SUPPQUAL", "POOLDEF">>

ALLOWED_cdashig_class ==
    <<"Interventions", "Events", "Findings", "FindingsAbout", "SpecialPurpose">>

ALLOWED_cdashig_domain ==
    <<"AG", "CM", "EC", "EX", "ML", "PR", "SU", "AE", "CE", "DS", "DV", "HO", "MH", "SA", "CP",
    "CV", "DA", "DD", "EG", "GF", "IE", "LB", "MB", "MI", "MK", "MS", "NV", "OE", "PC", "PE",
    "RE", "RP", "RS", "SC", "TR", "TU", "UR", "VS", "FA", "SR", "CO", "DM">>

ALLOWED_cdash_model_class ==
    <<"Interventions", "Events", "Findings", "FindingsAbout", "SpecialPurpose", "Identifiers",
    "AssociatedPersonsIdentifiers", "Timing">>

ALLOWED_cdash_model_domain ==
    <<"AE", "CO", "DM", "DS", "MH", "MS">>

ALLOWED_adam_datastructure_combinations ==
    << [k |-> "adam-nca-1-0", v |-> <<"ADNCA">>],
       [k |-> "adamig-1-0", v |-> <<"ADSL", "BDS">>],
       [k |-> "adamig-1-1", v |-> <<"ADSL", "BDS">>],
       [k |-> "adam-occds-1-0", v |-> <<"OCCDS">>],
       [k |-> "adam-occds-1-1", v |-> <<"OCCDS", "AE">>],
       [k |-> "adam-adae-1-0", v |-> <<"ADAE">>],
       [k |-> "adam-poppk-1-0", v |-> <<"ADPPK">>],
       [k |-> "adam-tte-1-0", v |-> <<"ADTTE">>],
       [k |-> "adamig-1-2", v |-> <<"ADSL", "BDS">>],
       [k |-> "adam-md-1-0", v |-> <<"ADDL", "MDOCCDS", "MDBDS", "MDTTE">>],
       [k |-> "adamig-1-3", v |-> <<"ADSL", "BDS", "TTE">>] >>

ALLOWED_qrs_combinations ==
    << [k |-> "AIMS01", v |-> <<"2-0">>],
       [k |-> "APCH1", v |-> <<"1-0">>],
       [k |-> "ATLAS1", v |-> <<"1-0">>],
       [k |-> "CGI02", v |-> <<"2-1">>],
       [k |-> "HAMA1", v |-> <<"2-1">>],
       [k |-> "KFSS1", v |-> <<"2-0">>],
       [k |-> "KPSS1", v |-> <<"2-0">>],
       [k |-> "PGI01", v |-> <<"1-1">>],
       [k |-> "SIXMW1", v |-> <<"1-0">>] >>

ct_package ==
    <<"adamct-2014-09-26", "adamct-2015-12-18", "adamct-2016-03-25", "adamct-2016-09-30",
    "adamct-2016-12-16", "adamct-2017-03-31", "adamct-2017-09-29", "adamct-2018-12-21",
    "adamct-2019-03-29", "adamct-2019-12-20", "adamct-2020-03-27", "adamct-2020-06-26",
    "adamct-2020-11-06", "adamct-2021-12-17", "adamct-2022-06-24", "adamct-2023-03-31",
    "adamct-2023-06-30", "adamct-2024-03-29", "adamct-2024-09-27", "adamct-2025-03-28",
    "adamct-2025-09-26", "cdashct-2014-09-26", "cdashct-2015-03-27", "cdashct-2016-03-25",
    "cdashct-2016-09-30", "cdashct-2016-12-16", "cdashct-2017-09-29", "cdashct-2018-03-30",
    "cdashct-2018-06-29", "cdashct-2018-09-28", "cdashct-2018-12-21", "cdashct-2019-03-29",
    "cdashct-2019-06-28", "cdashct-2019-12-20", "cdashct-2020-11-06", "cdashct-2020-12-18",
    "cdashct-2021-03-26", "cdashct-2021-06-25", "cdashct-2021-09-24", "cdashct-2021-12-17",
    "cdashct-2022-06-24", "cdashct-2022-09-30", "cdashct-2022-12-16", "cdashct-2024-09-27",
    "cdashct-2025-03-28", "coact-2014-12-19", "coact-2015-03-27", "ddfct-2022-09-30",
    "ddfct-2022-12-16", "ddfct-2023-03-31", "ddfct-2023-06-30", "ddfct-2023-09-29",
    "ddfct-2023-12-15", "ddfct-2024-03-29", "ddfct-2024-09-27", "ddfct-2025-09-26",
    "define-xmlct-2019-12-20", "define-xmlct-2020-03-27", "define-xmlct-2020-06-26",
    "define-xmlct-2020-11-06", "define-xmlct-2020-12-18", "define-xmlct-2021-03-26",
    "define-xmlct-2021-06-25", "define-xmlct-2021-09-24", "define-xmlct-2021-12-17",
    "define-xmlct-2022-09-30", "define-xmlct-2022-12-16", "define-xmlct-2023-06-30",
    "define-xmlct-2023-12-15", "define-xmlct-2024-03-29", "define-xmlct-2024-09-27",
    "define-xmlct-2025-03-28", "define-xmlct-2025-09-26", "glossaryct-2020-12-18",
    "glossaryct-2021-12-17", "glossaryct-2022-12-16", "glossaryct-2023-12-15",
    "glossaryct-2024-09-27", "glossaryct-2025-09-26", "mrctct-2024-03-29", "mrctct-2024-09-27",
    "mrctct-2025-09-26", "protocolct-2017-03-31", "protocolct-2017-06-30",
    "protocolct-2017-09-29", "protocolct-2018-03-30", "protocolct-2018-06-29",
    "protocolct-2018-09-28", "protocolct-2019-03-29", "protocolct-2019-06-28",
    "protocolct-2019-09-27", "protocolct-2019-12-20", "protocolct-2020-03-27",
    "protocolct-2020-06-26", "protocolct-2020-11-06", "protocolct-2020-12-18",
    "protocolct-2021-03-26", "protocolct-2021-06-25", "protocolct-2021-09-24",
    "protocolct-2021-12-17", "protocolct-2022-03-25", "protocolct-2022-06-24",
    "protocolct-2022-09-30", "protocolct-2022-12-16", "protocolct-2023-03-31",
    "protocolct-2023-06-30", "protocolct-2023-09-29", "protocolct-2023-12-15",
    "protocolct-2024-03-29", "protocolct-2024-09-27", "protocolct-2025-03-28",
    "protocolct-2025-09-26", "qrsct-2015-06-26", "qrsct-2015-09-25", "qs-ftct-2014-09-26",
    "sdtmct-2014-09-26", "sdtmct-2014-12-19", "sdtmct-2015-03-27", "sdtmct-2015-06-26",
    "sdtmct-2015-09-25", "sdtmct-2015-12-18", "sdtmct-2016-03-25", "sdtmct-2016-06-24",
    "sdtmct-2016-09-30", "sdtmct-2016-12-16", "sdtmct-2017-03-31", "sdtmct-2017-06-30",
    "sdtmct-2017-09-29", "sdtmct-2017-12-22", "sdtmct-2018-03-30", "sdtmct-2018-06-29",
    "sdtmct-2018-09-28", "sdtmct-2018-12-21", "sdtmct-2019-03-29", "sdtmct-2019-06-28",
    "sdtmct-2019-09-27", "sdtmct-2019-12-20", "sdtmct-2020-03-27", "sdtmct-2020-06-26",
    "sdtmct-2020-11-06", "sdtmct-2020-12-18", "sdtmct-2021-03-26", "sdtmct-2021-06-25",
    "sdtmct-2021-09-24", "sdtmct-2021-12-17", "sdtmct-2022-03-25", "sdtmct-2022-06-24",
    "sdtmct-2022-09-30", "sdtmct-2022-12-16", "sdtmct-2023-03-31", "sdtmct-2023-06-30",
    "sdtmct-2023-09-29", "sdtmct-2023-12-15", "sdtmct-2024-03-29", "sdtmct-2024-09-27",
    "sdtmct-2025-03-28", "sdtmct-2025-09-26", "sendct-2014-09-26", "sendct-2014-12-19",
    "sendct-2015-03-27", "sendct-2015-06-26", "sendct-2015-09-25", "sendct-2015-12-18",
    "sendct-2016-03-25", "sendct-2016-06-24", "sendct-2016-09-30", "sendct-2016-12-16",
    "sendct-2017-03-31", "sendct-2017-06-30", "sendct-2017-09-29", "sendct-2017-12-22",
    "sendct-2018-03-30", "sendct-2018-06-29", "sendct-2018-09-28", "sendct-2018-12-21",
    "sendct-2019-03-29", "sendct-2019-06-28", "sendct-2019-09-27", "sendct-2019-12-20",
    "sendct-2020-03-27", "sendct-2020-06-26", "sendct-2020-11-06", "sendct-2020-12-18",
    "sendct-2021-03-26", "sendct-2021-06-25", "sendct-2021-09-24", "sendct-2021-12-17",
    "sendct-2022-03-25", "sendct-2022-06-24", "sendct-2022-09-30", "sendct-2022-12-16",
    "sendct-2023-03-31", "sendct-2023-06-30", "sendct-2023-09-29", "sendct-2023-12-15",
    "sendct-2024-03-29", "sendct-2024-09-27", "sendct-2025-03-28", "sendct-2025-09-26",
    "tmfct-2024-09-27">>

-----------------------------------------------------------------------------
(* What the part of a tool before the HTTP call yields: a returned string, *)
(* or the GET request it goes on to issue.                                 *)

Return(text) == [kind |-> "return", text |-> text]

\* client.get(url, headers=hdr, timeout=t): the URL is the path below
\* https://api.library.cdisc.org/api/mdr, segment by segment, and its query
Request(path, query, key, t) ==
    [kind |-> "request", path |-> path, query |-> query, key |-> key, timeout |-> t]

\* if not api_key: return "Error: CDISC_API_KEY environment variable not found."
MissingKey == <<Lit("Error"), Lit(": CDISC_API_KEY environment variable not found.")>>

\* str.lower() of the allow-list entries the calls spell in lower case
Lower(x) ==
    CASE x = "Events" -> "events" [] x = "ADSL" -> "adsl" [] x = "AIMS01" -> "aims01"
      [] OTHER -> x

\* the flat test comparing case-insensitively: value.lower() == entry.lower()
FlatAllowedAnyCase(value, list) == \E i \in 1..Len(list) : Lower(list[i]) = Lower(value)

\* the flat allow-list test of the standards tools: value in [...]
FlatAllowed(value, list) == InList(value, list)

\* a package test that lets the empty string pass, as the tests of the optional
\* arguments do
PackageAllowedOrEmpty(package) == package = "" \/ InList(package, ct_package)

\* the package test of the controlled-terminology tools: package in ct_package
PackageAllowed(package) == InList(package, ct_package)

\* the child test looking the child up under every parent, not under its own
ChildAllowedAnyParent(d, parent, child) == \E i \in 1..Len(d) : InList(child, d[i].v)

\* the two-level test: the parent is a key of the map, the child is in its list
ParentAllowed(d, parent) == HasKey(d, parent)
ChildAllowed(d, parent, child) == InList(child, GetItem(d, parent))

\* f"Error: {name} is invalid, got '{value}'"
InvalidValue(name, value) ==
    <<Lit("Error"), Lit(": " \o name \o " is invalid, got '"), Lit(value), Lit("'")>>

\* f"Error: Package '{package}' is invalid or not found in known packages."
InvalidPackage(package) ==
    <<Lit("Error"), Lit(": Package '"), Lit(package),
      Lit("' is invalid or not found in known packages.")>>

\* f"Error: Invalid {what} '{parent}'. Valid {what}s are: {', '.join(d.keys())}"
InvalidParent(what, parent, d) ==
    <<Lit("Error"), Lit(": Invalid " \o what \o " '"), Lit(parent),
      Lit("'. Valid " \o what \o "s are: ")>> \o Join(", ", Keys(d))

\* the child message enumerating the map's keys where the parent's list belongs
InvalidChildListingParents(what, child, pwhat, parent, d) ==
    <<Lit("Error"), Lit(": Invalid " \o what \o " '"), Lit(child),
      Lit("' for " \o pwhat \o " '"), Lit(parent),
      Lit("'. Valid " \o what \o "s are: ")>> \o Join(", ", Keys(d))

\* f"Error: Invalid {what} '{child}' for {pwhat} '{parent}'. Valid {what}s are:
\*   {', '.join(d[parent])}"
InvalidChild(what, child, pwhat, parent, d) ==
    <<Lit("Error"), Lit(": Invalid " \o what \o " '"), Lit(child),
      Lit("' for " \o pwhat \o " '"), Lit(parent),
      Lit("'. Valid " \o what \o "s are: ")>> \o Join(", ", GetItem(d, parent))

-----------------------------------------------------------------------------
(* The eighteen tools, up to the HTTP call. *)

get_CDISC_Library_api_product_list(key) ==
    Request(<<"products">>, "expand=false", key, 15)

get_sdtmig_class_info(key, version, className) ==
    IF ~Truthy(key) THEN Return(MissingKey)
    ELSE IF Truthy(className)
    THEN IF FlatAllowed(className, ALLOWED_sdtmig_class)
         THEN Request(<<"sdtmig", version, "classes", className, "datasets">>,
                      "expand=false", key, 15)
         ELSE Return(InvalidValue("className", className))
    ELSE Request(<<"sdtmig", version, "classes">>, "", key, 15)

get_sdtmig_dataset_info(key, version, dataset) ==
    IF ~Truthy(key) THEN Return(MissingKey)
    ELSE IF Truthy(dataset)
    THEN IF FlatAllowed(dataset, ALLOWED_sdtmig_dataset)
         THEN Request(<<"sdtmig", version, "datasets", dataset>>, "", key, 15)
         ELSE Return(InvalidValue("dataset", dataset))
    ELSE Request(<<"sdtmig", version, "datasets">>, "", key, 15)

get_sdtm_model_class_info(key, version, className) ==
    IF ~Truthy(key) THEN Return(MissingKey)
    ELSE IF Truthy(className)
    THEN IF FlatAllowed(className, ALLOWED_sdtm_model_class)
         THEN Request(<<"sdtm", version, "classes", className>>, "", key, 15)
         ELSE Return(InvalidValue("className", className))
    ELSE Request(<<"sdtm", version, "classes">>, "", key, 15)

get_sdtm_model_dataset_info(key, version, dataset) ==
    IF ~Truthy(key) THEN Return(MissingKey)
    ELSE IF Truthy(dataset)
    THEN IF FlatAllowed(dataset, ALLOWED_sdtm_model_dataset)
         THEN Request(<<"sdtm", version, "datasets", dataset>>, "", key, 15)
         ELSE Return(InvalidValue("dataset", dataset))
    ELSE Request(<<"sdtm", version, "datasets">>, "", key, 15)

get_sendig_class_info(key, version, className) ==
    IF ~Truthy(key) THEN Return(MissingKey)
    ELSE IF Truthy(className)
    THEN IF FlatAllowed(className, ALLOWED_sendig_class)
         THEN Request(<<"sendig", version, "classes", className>>, "", key, 15)
         ELSE Return(InvalidValue("className", className))
    ELSE Request(<<"sendig", version, "classes">>, "", key, 15)

get_sendig_dataset_info(key, version, dataset) ==
    IF ~Truthy(key) THEN Return(MissingKey)
    ELSE IF Truthy(dataset)
    THEN IF FlatAllowed(dataset, ALLOWED_sendig_dataset)
         THEN Request(<<"sendig", version, "datasets", dataset>>, "", key, 15)
         ELSE Return(InvalidValue("dataset", dataset))
    ELSE Request(<<"sendig", version, "datasets">>, "", key, 15)

get_cdashig_class_info(key, version, className) ==
    IF ~Truthy(key) THEN Return(MissingKey)
    ELSE IF Truthy(className)
    THEN IF FlatAllowed(className, ALLOWED_cdashig_class)
         THEN Request(<<"cdashig", version, "classes", className, "domains">>, "", key, 15)
         ELSE Return(InvalidValue("className", className))
    ELSE Request(<<"cdashig", version, "classes">>, "", key, 15)

get_cdashig_domain_info(key, version, domains) ==
    IF ~Truthy(key) THEN Return(MissingKey)
    ELSE IF Truthy(domains)
    THEN IF FlatAllowed(domains, ALLOWED_cdashig_domain)
         THEN Request(<<"cdashig", version, "domains", domains>>, "", key, 15)
         ELSE Return(InvalidValue("domains", domains))
    ELSE Request(<<"cdashig", version, "domains">>, "", key, 15)

get_cdashig_scenarios_info(key, version, scenario) ==
    IF ~Truthy(key) THEN Return(MissingKey)
    ELSE IF Truthy(scenario)
    THEN Request(<<"cdashig", version, "scenarios", scenario>>, "", key, 15)
    ELSE Request(<<"cdashig", version, "scenarios">>, "", key, 15)

get_cdash_model_class_info(key, version, className) ==
    IF ~Truthy(key) THEN Return(MissingKey)
    ELSE IF Truthy(className)
    THEN IF FlatAllowed(className, ALLOWED_cdash_model_class)
         THEN Request(<<"cdash", version, "classes", className>>, "", key, 15)
         ELSE Return(InvalidValue("className", className))
    ELSE Request(<<"cdash", version, "classes">>, "", key, 15)

get_cdash_model_domain_info(key, version, domain) ==
    IF ~Truthy(key) THEN Return(MissingKey)
    ELSE IF Truthy(domain)
    THEN IF FlatAllowed(domain, ALLOWED_cdash_model_domain)
         THEN Request(<<"cdash", version, "domains", domain>>, "", key, 15)
         ELSE Return(InvalidValue("domain", domain))
    ELSE Request(<<"cdash", version, "domains">>, "", key, 15)

get_adam_product_info(key, product) ==
    IF ~Truthy(key) THEN Return(MissingKey)
    ELSE Request(<<"adam", product>>, "", key, 15)

\* the two membership tests made before the credential is looked at
get_adam_datastructure_info_validating_first(key, product, datastructure) ==
    IF ~ParentAllowed(ALLOWED_adam_datastructure_combinations, product)
    THEN Return(InvalidParent("product", product, ALLOWED_adam_datastructure_combinations))
    ELSE IF ~ChildAllowed(ALLOWED_adam_datastructure_combinations, product, datastructure)
    THEN Return(InvalidChild("datastructure", datastructure, "product", product,
                             ALLOWED_adam_datastructure_combinations))
    ELSE IF ~Truthy(key) THEN Return(MissingKey)
    ELSE Request(<<"adam", product, "datastructures", datastructure>>, "", key, 15)

get_adam_datastructure_info(key, product, datastructure) ==
    IF ~Truthy(key) THEN Return(MissingKey)
    ELSE IF ~ParentAllowed(ALLOWED_adam_datastructure_combinations, product)
    THEN Return(InvalidParent("product", product, ALLOWED_adam_datastructure_combinations))
    ELSE IF ~ChildAllowed(ALLOWED_adam_datastructure_combinations, product, datastructure)
    THEN Return(InvalidChild("datastructure", datastructure, "product", product,
                             ALLOWED_adam_datastructure_combinations))
    ELSE Request(<<"adam", product, "datastructures", datastructure>>, "", key, 15)

\* the url with the version put where the instrument belongs
get_qrs_info_version_first(key, instrument, version) ==
    IF ~Truthy(key) THEN Return(MissingKey)
    ELSE IF ~ParentAllowed(ALLOWED_qrs_combinations, instrument)
    THEN Return(InvalidParent("instrument", instrument, ALLOWED_qrs_combinations))
    ELSE IF ~ChildAllowed(ALLOWED_qrs_combinations, instrument, version)
    THEN Return(InvalidChild("version", version, "instrument", instrument,
                             ALLOWED_qrs_combinations))
    ELSE Request(<<"qrs", "instruments", version, "versions", instrument>>, "", key, 15)

get_qrs_info(key, instrument, version) ==
    IF ~Truthy(key) THEN Return(MissingKey)
    ELSE IF ~ParentAllowed(ALLOWED_qrs_combinations, instrument)
    THEN Return(InvalidParent("instrument", instrument, ALLOWED_qrs_combinations))
    ELSE IF ~ChildAllowed(ALLOWED_qrs_combinations, instrument, version)
    THEN Return(InvalidChild("version", version, "instrument", instrument,
                             ALLOWED_qrs_combinations))
    ELSE Request(<<"qrs", "instruments", instrument, "versions", version>>, "", key, 15)

get_package_ct_info(key, package) ==
    IF ~Truthy(key) THEN Return(MissingKey)
    ELSE IF ~PackageAllowed(package) THEN Return(InvalidPackage(package))
    ELSE Request(<<"ct", "packages", package>>, "", key, 30)

get_package_ct_codelist_info(key, package, codelist) ==
    IF ~Truthy(key) THEN Return(MissingKey)
    ELSE IF ~PackageAllowed(package) THEN Return(InvalidPackage(package))
    ELSE Request(<<"ct", "packages", package, "codelists", codelist>>, "", key, 30)

get_package_ct_codelist_term_info(key, package, codelist, term) ==
    IF ~Truthy(key) THEN Return(MissingKey)
    ELSE IF ~PackageAllowed(package) THEN Return(InvalidPackage(package))
    ELSE Request(<<"ct", "packages", package, "codelists", codelist, "terms", term>>,
                 "", key, 30)

-----------------------------------------------------------------------------
(* Exceptions, and what a step of a tool body yields besides a string. *)

\* an exception object: its class, str(e), and for an HTTPStatusError the
\* response's status code and text
Exc(cls, msg) == [cls |-> cls, msg |-> msg, status |-> 0, body |-> <<>>]
StatusExc(code, body) ==
    [cls |-> "HTTPStatusError", msg |-> <<Lit("status error")>>, status |-> code, body |-> body]
Raise(exc) == [kind |-> "raise", exc |-> exc]
NoExc == Exc("", <<>>)

\* httpx's hierarchy: TimeoutException and the connection errors are TransportErrors,
\* which are RequestErrors; HTTPStatusError is not a RequestError
IsTimeoutException(e) == e.cls = "TimeoutException"
IsHTTPStatusError(e) == e.cls = "HTTPStatusError"
IsRequestError(e) == e.cls \in {"TimeoutException", "ConnectError", "ReadError"}

\* str(n) of a status code
Digits == <<"0", "1", "2", "3", "4", "5", "6", "7", "8", "9">>
RECURSIVE IntToStr(_)
IntToStr(n) == IF n < 10 THEN Digits[n + 1] ELSE IntToStr(n \div 10) \o Digits[(n % 10) + 1]

\* type(v).__name__ of a decoded JSON value
TypeName(v) ==
    CASE v.t = "dict" -> "dict" [] v.t = "list" -> "list" [] v.t = "str" -> "str"
      [] v.t = "null" -> "NoneType"

\* the length every tool compares len(json.dumps(...)) with
MaxResponseChars == 130000

\* "..." + "The data is too long, please shorten the request."
TooLongMarker == <<Lit("..."), Lit("The data is too long, please shorten the request.")>>

\* "\n... [Truncated]"
TruncatedMarker == <<Lit("\n... [Truncated]")>>

-----------------------------------------------------------------------------
(* The response shapers. *)

\* obj[key] = value on a key the object has: the key keeps its position
SetItem(obj, key, value) ==
    JObj([i \in 1..Len(obj.kv) |->
            IF obj.kv[i].k = key THEN KV(key, value) ELSE obj.kv[i]])

\* a clearing that looks at the top-level object only
remove_top_analysis_variables(obj) ==
    IF isinstance_dict(obj) /\ InDict(obj, "analysisVariables")
    THEN SetItem(obj, "analysisVariables", JList(<<>>))
    ELSE obj

\* a clearing that drops only the first entry of a list of analysisVariables
RECURSIVE remove_first_analysis_variable(_)
remove_first_analysis_variable(obj) ==
    IF isinstance_dict(obj)
    THEN LET av == DictGet(obj, "analysisVariables")
             cleared == IF InDict(obj, "analysisVariables")
                        THEN SetItem(obj, "analysisVariables",
                                     IF isinstance_list(av) /\ av.items # <<>>
                                     THEN JList(Tail(av.items)) ELSE JList(<<>>))
                        ELSE obj
         IN  JObj([i \in 1..Len(cleared.kv) |->
                    KV(cleared.kv[i].k, remove_first_analysis_variable(cleared.kv[i].v))])
    ELSE IF isinstance_list(obj)
    THEN JList([i \in 1..Len(obj.items) |-> remove_first_analysis_variable(obj.items[i])])
    ELSE obj

RECURSIVE remove_all_analysis_variables(_)
remove_all_analysis_variables(obj) ==
    IF isinstance_dict(obj)
    THEN LET cleared == IF InDict(obj, "analysisVariables")
                        THEN SetItem(obj, "analysisVariables", JList(<<>>))
                        ELSE obj
         IN  JObj([i \in 1..Len(cleared.kv) |->
                    KV(cleared.kv[i].k, remove_all_analysis_variables(cleared.kv[i].v))])
    ELSE IF isinstance_list(obj)
    THEN JList([i \in 1..Len(obj.items) |-> remove_all_analysis_variables(obj.items[i])])
    ELSE obj

\* a pruning that does not look at the key an object was reached under
RECURSIVE remove_links_any_parent(_, _)
remove_links_any_parent(obj, parent_key) ==
    IF isinstance_dict(obj)
    THEN LET links == DictGet(obj, "_links")
             pruned ==
                IF InDict(obj, "_links") /\ isinstance_dict(links)
                THEN IF InDict(links, "self")
                     THEN SetItem(obj, "_links", JObj(<<KV("self", DictGet(links, "self"))>>))
                     ELSE SetItem(obj, "_links", JObj(<<>>))
                ELSE obj
         IN  JObj([i \in 1..Len(pruned.kv) |->
                    KV(pruned.kv[i].k, remove_links_any_parent(pruned.kv[i].v, pruned.kv[i].k))])
    ELSE IF isinstance_list(obj)
    THEN JList([i \in 1..Len(obj.items) |-> remove_links_any_parent(obj.items[i], parent_key)])
    ELSE obj

\* a pruning that forgets the parent key when it enters a list
RECURSIVE remove_links_forgetting_lists(_, _)
remove_links_forgetting_lists(obj, parent_key) ==
    IF isinstance_dict(obj)
    THEN LET links == DictGet(obj, "_links")
             pruned ==
                IF parent_key = "analysisVariables" /\ InDict(obj, "_links")
                   /\ isinstance_dict(links)
                THEN IF InDict(links, "self")
                     THEN SetItem(obj, "_links", JObj(<<KV("self", DictGet(links, "self"))>>))
                     ELSE SetItem(obj, "_links", JObj(<<>>))
                ELSE obj
         IN  JObj([i \in 1..Len(pruned.kv) |->
                    KV(pruned.kv[i].k,
                       remove_links_forgetting_lists(pruned.kv[i].v, pruned.kv[i].k))])
    ELSE IF isinstance_list(obj)
    THEN JList([i \in 1..Len(obj.items) |-> remove_links_forgetting_lists(obj.items[i], None)])
    ELSE obj

RECURSIVE remove_links_parent_refs(_, _)
remove_links_parent_refs(obj, parent_key) ==
    IF isinstance_dict(obj)
    THEN LET links == DictGet(obj, "_links")
             pruned ==
                IF parent_key = "analysisVariables" /\ InDict(obj, "_links")
                   /\ isinstance_dict(links)
                THEN IF InDict(links, "self")
                     THEN SetItem(obj, "_links", JObj(<<KV("self", DictGet(links, "self"))>>))
                     ELSE SetItem(obj, "_links", JObj(<<>>))
                ELSE obj
         IN  JObj([i \in 1..Len(pruned.kv) |->
                    KV(pruned.kv[i].k,
                       remove_links_parent_refs(pruned.kv[i].v, pruned.kv[i].k))])
    ELSE IF isinstance_list(obj)
    THEN JList([i \in 1..Len(obj.items) |->
                    remove_links_parent_refs(obj.items[i], parent_key)])
    ELSE obj

\* x.get(...) on a value that is not a dict
NoGet(v) ==
    Exc("AttributeError", <<Lit("'" \o TypeName(v) \o "' object has no attribute 'get'")>>)

\* what "for x in v: x.get(...)" raises because of v's own type, or NoExc: a list
\* yields its items, an empty dict or str yields nothing, a non-empty dict or str
\* yields strings (which have no .get), None is not iterable
IterError(v) ==
    CASE v.t = "list" -> NoExc
      [] v.t = "null" -> Exc("TypeError", <<Lit("'NoneType' object is not iterable")>>)
      [] v.t = "dict" -> IF v.kv = <<>> THEN NoExc ELSE NoGet(JStr(""))
      [] v.t = "str"  -> IF v.n = 0 THEN NoExc ELSE NoGet(JStr(""))
IterItems(v) == IF v.t = "list" THEN v.items ELSE <<>>

\* the first exception a loop over items raises, err(item) being what its body raises
FirstError(items, err(_)) ==
    IF \E i \in 1..Len(items) : err(items[i]) # NoExc
    THEN err(items[CHOOSE i \in 1..Len(items) :
                     /\ err(items[i]) # NoExc
                     /\ \A j \in 1..(i - 1) : err(items[j]) = NoExc])
    ELSE NoExc

\* a term passed through with all its fields
clean_term_keeping_all(term) == term

\* {"conceptId": term.get("conceptId"), "submissionValue": term.get("submissionValue")}
clean_term(term) ==
    JObj(<<KV("conceptId", DictGet(term, "conceptId")),
           KV("submissionValue", DictGet(term, "submissionValue"))>>)
clean_term_error(term) == IF isinstance_dict(term) THEN NoExc ELSE NoGet(term)

\* clean_cl: the codelist's two identifying fields and its cleaned terms
clean_cl_error(cl) ==
    IF ~isinstance_dict(cl) THEN NoGet(cl)
    ELSE IF ~InDict(cl, "terms") THEN NoExc
    ELSE IF IterError(DictGet(cl, "terms")) # NoExc THEN IterError(DictGet(cl, "terms"))
    ELSE FirstError(IterItems(DictGet(cl, "terms")), clean_term_error)
clean_cl(cl) ==
    LET terms == IF InDict(cl, "terms") THEN IterItems(DictGet(cl, "terms")) ELSE <<>>
    IN  JObj(<<KV("conceptId", DictGet(cl, "conceptId")),
               KV("submissionValue", DictGet(cl, "submissionValue")),
               KV("terms", JList([i \in 1..Len(terms) |-> clean_term(terms[i])]))>>)

\* the data minification of get_package_ct_info: the exception it raises, or NoExc,
\* and final_data
minimize_error(raw_data) ==
    IF ~isinstance_dict(raw_data) THEN NoGet(raw_data)
    ELSE LET codelists == IF InDict(raw_data, "codelists")
                          THEN DictGet(raw_data, "codelists") ELSE JList(<<>>)
         IN  IF IterError(codelists) # NoExc THEN IterError(codelists)
             ELSE FirstError(IterItems(codelists), clean_cl_error)
minimize(raw_data) ==
    LET codelists == IF InDict(raw_data, "codelists")
                     THEN IterItems(DictGet(raw_data, "codelists")) ELSE <<>>
    IN  JObj(<<KV("codelists", JList([i \in 1..Len(codelists) |-> clean_cl(codelists[i])]))>>)

-----------------------------------------------------------------------------
(* The body of each tool's try block, from the response on. *)

\* data[:k] of a decoded value: what it raises (a dict cannot be sliced: TypeError
\* "unhashable type: 'slice'" before Python 3.12, KeyError from 3.12 on, where a
\* slice is hashable), or NoExc, and its value
slice_error(data, py) ==
    CASE data.t = "dict" ->
            IF py = "3.12" THEN Exc("KeyError", <<Lit("slice(None, 130000, None)")>>)
            ELSE Exc("TypeError", <<Lit("unhashable type: 'slice'")>>)
      [] data.t = "null" ->
            Exc("TypeError", <<Lit("'NoneType' object is not subscriptable")>>)
      [] OTHER -> NoExc
slice(data, k) ==
    CASE data.t = "list" ->
            JList(SubSeq(data.items, 1, IF Len(data.items) < k THEN Len(data.items) ELSE k))
      [] data.t = "str" -> [data EXCEPT !.n = IF data.n < k THEN data.n ELSE k]
      [] OTHER -> data

\* return json.dumps(data, ensure_ascii=False)
respond_product_list(data) == Return(json_dumps(data))

\* if len(json.dumps(data)) > 130000:
\*     return json.dumps(data[:130000]) + "..." + "The data is too long, ..."
\* else: return json.dumps(data)
respond_sliced(data, py) ==
    IF TextLen(json_dumps(data)) > MaxResponseChars
    THEN IF slice_error(data, py) # NoExc THEN Raise(slice_error(data, py))
         ELSE Return(json_dumps(slice(data, MaxResponseChars)) \o TooLongMarker)
    ELSE Return(json_dumps(data))

\* result = json.dumps(json_data)
\* if len(result) > 130000: return result[:130000] + "..." + "The data is too long, ..."
\* else: return result
respond_truncated(json_data) ==
    LET result == json_dumps(json_data)
    IN  IF TextLen(result) > MaxResponseChars
        THEN Return(Take(result, MaxResponseChars) \o TooLongMarker)
        ELSE Return(result)

\* json_str = json.dumps(data, separators=(',', ':'))
\* if len(json_str) > 130000: return json_str[:130000] + "\n... [Truncated]"
\* else: return json_str
respond_ct(data) ==
    LET json_str == json_dumps_compact(data)
    IN  IF TextLen(json_str) > MaxResponseChars
        THEN Return(Take(json_str, MaxResponseChars) \o TruncatedMarker)
        ELSE Return(json_str)

SlicingTools ==
    {"get_sdtmig_class_info", "get_sdtmig_dataset_info", "get_sdtm_model_class_info",
     "get_sdtm_model_dataset_info", "get_sendig_class_info", "get_sendig_dataset_info",
     "get_cdashig_class_info", "get_cdashig_domain_info", "get_cdashig_scenarios_info",
     "get_cdash_model_class_info", "get_cdash_model_domain_info"}
CtTools ==
    {"get_package_ct_info", "get_package_ct_codelist_info",
     "get_package_ct_codelist_term_info"}
Tools ==
    {"get_CDISC_Library_api_product_list", "get_adam_product_info",
     "get_adam_datastructure_info", "get_qrs_info"} \cup SlicingTools \cup CtTools

\* what follows data = response.json() in each tool
on_json(tool, data, py) ==
    CASE tool = "get_CDISC_Library_api_product_list" -> respond_product_list(data)
      [] tool \in SlicingTools -> respond_sliced(data, py)
      [] tool = "get_adam_product_info" ->
            respond_truncated(remove_all_analysis_variables(data))
      [] tool = "get_adam_datastructure_info" ->
            respond_truncated(remove_links_parent_refs(data, None))
      [] tool = "get_qrs_info" -> respond_truncated(data)
      [] tool = "get_package_ct_info" ->
            IF minimize_error(data) # NoExc THEN Raise(minimize_error(data))
            ELSE respond_ct(minimize(data))
      [] OTHER -> respond_ct(data)

\* a status check that lets everything below 400 pass
is_not_error_status(status) == status < 400

\* response.raise_for_status(): an HTTPStatusError unless the status is 2xx
is_success(status) == 200 <= status /\ status <= 299

\* the try block once client.get has finished with outcome o: the exception of a
\* failed request, or the response's status, decoding and serialization
try_block(tool, o, py) ==
    CASE o.kind = "timeout" -> Raise(Exc("TimeoutException", o.msg))
      [] o.kind = "transport" -> Raise(Exc(o.cls, o.msg))
      [] o.kind = "response" ->
            IF ~is_success(o.status) THEN Raise(StatusExc(o.status, o.text))
            ELSE IF o.json.t = "invalid"
            THEN Raise(Exc("JSONDecodeError",
                           <<Lit("Expecting value: line 1 column 1 (char 0)")>>))
            ELSE on_json(tool, o.json, py)

\* the except clauses of get_CDISC_Library_api_product_list
except_product_list(c) ==
    IF c.kind # "raise" THEN c
    ELSE IF IsTimeoutException(c.exc)
    THEN Return(<<Lit("Error"),
                  Lit(": The request to CDISC Library timed out. Please try again later.")>>)
    ELSE IF IsHTTPStatusError(c.exc)
    THEN Return(<<Lit("API Error"), Lit(": CDISC Library returned status "),
                  Lit(IntToStr(c.exc.status)), Lit(".")>>)
    ELSE IF IsRequestError(c.exc)
    THEN Return(<<Lit("Network Error"),
                  Lit(": Unable to connect to CDISC Library. Details: ")>> \o c.exc.msg)
    ELSE Return(<<Lit("Unexpected Error"), Lit(": ")>> \o c.exc.msg)

\* except clauses whose last one returns str(e) alone
except_tool_unlabelled(c) ==
    IF c.kind # "raise" THEN c
    ELSE IF IsHTTPStatusError(c.exc)
    THEN Return(<<Lit("API Error"), Lit(": HTTP "), Lit(IntToStr(c.exc.status)), Lit(" - ")>>
                \o c.exc.body)
    ELSE IF IsRequestError(c.exc)
    THEN Return(<<Lit("Network Error"), Lit(": ")>> \o c.exc.msg)
    ELSE Return(c.exc.msg)

\* the except clauses of every other tool
except_tool(c) ==
    IF c.kind # "raise" THEN c
    ELSE IF IsHTTPStatusError(c.exc)
    THEN Return(<<Lit("API Error"), Lit(": HTTP "), Lit(IntToStr(c.exc.status)), Lit(" - ")>>
                \o c.exc.body)
    ELSE IF IsRequestError(c.exc)
    THEN Return(<<Lit("Network Error"), Lit(": ")>> \o c.exc.msg)
    ELSE Return(<<Lit("Execution Error"), Lit(": ")>> \o c.exc.msg)

\* the try/except of a tool around a completed request
handle(tool, c) ==
    IF tool = "get_CDISC_Library_api_product_list" THEN except_product_list(c)
    ELSE except_tool(c)

\* whether "async with httpx.AsyncClient() as client" stands inside the try block
\* (get_CDISC_Library_api_product_list) or around it (every other tool)
ClientInsideTry(tool) == tool = "get_CDISC_Library_api_product_list"

-----------------------------------------------------------------------------
(* The inputs: the credential, the calls and the upstream's answers. *)

ApiKeys == {None, "", "k"}

Versions == {"3-4", "9-9"}
Children == {None, "", "Events", "events", "AssociatedPersons", "DM", "AG", "Bogus"}
Products == {"adamig-1-3", "adam-occds-1-1", "adam-9-9", ""}
Datastructures == {"ADSL", "TTE", "AE", "adsl", ""}
Instruments == {"AIMS01", "CGI02", "aims01", ""}
QrsVersions == {"2-0", "2-1", ""}
Packages == {"sdtmct-2025-09-26", "SDTMCT-2025-09-26", "sdtmct-2025", ""}
Codelists == {"C103458", ""}
Terms == {"C103531", "zz"}

\* the second argument has the default None, except dataset of
\* get_sdtmig_dataset_info, which every call must supply
ChildrenOf(tool) ==
    IF tool = "get_sdtmig_dataset_info" THEN Children \ {None} ELSE Children

\* a call: the tool and its positional arguments
Call(tool, args) == [tool |-> tool, args |-> args]
Calls ==
    {Call("get_CDISC_Library_api_product_list", <<>>)}
    \cup UNION {{Call(t, <<v, c>>) : v \in Versions, c \in ChildrenOf(t)} : t \in SlicingTools}
    \cup {Call("get_adam_product_info", <<p>>) : p \in Products}
    \cup {Call("get_adam_datastructure_info", <<p, d>>) : p \in Products, d \in Datastructures}
    \cup {Call("get_qrs_info", <<i, v>>) : i \in Instruments, v \in QrsVersions}
    \cup {Call("get_package_ct_info", <<p>>) : p \in Packages}
    \cup {Call("get_package_ct_codelist_info", <<p, c>>) : p \in Packages, c \in Codelists}
    \cup {Call("get_package_ct_codelist_term_info", <<p, c, t>>) :
            p \in Packages, c \in Codelists, t \in Terms}

\* the tool function applied to the credential and the arguments
Pre(tool, key, a) ==
    CASE tool = "get_CDISC_Library_api_product_list" -> get_CDISC_Library_api_product_list(key)
      [] tool = "get_sdtmig_class_info" -> get_sdtmig_class_info(key, a[1], a[2])
      [] tool = "get_sdtmig_dataset_info" -> get_sdtmig_dataset_info(key, a[1], a[2])
      [] tool = "get_sdtm_model_class_info" -> get_sdtm_model_class_info(key, a[1], a[2])
      [] tool = "get_sdtm_model_dataset_info" -> get_sdtm_model_dataset_info(key, a[1], a[2])
      [] tool = "get_sendig_class_info" -> get_sendig_class_info(key, a[1], a[2])
      [] tool = "get_sendig_dataset_info" -> get_sendig_dataset_info(key, a[1], a[2])
      [] tool = "get_cdashig_class_info" -> get_cdashig_class_info(key, a[1], a[2])
      [] tool = "get_cdashig_domain_info" -> get_cdashig_domain_info(key, a[1], a[2])
      [] tool = "get_cdashig_scenarios_info" -> get_cdashig_scenarios_info(key, a[1], a[2])
      [] tool = "get_cdash_model_class_info" -> get_cdash_model_class_info(key, a[1], a[2])
      [] tool = "get_cdash_model_domain_info" -> get_cdash_model_domain_info(key, a[1], a[2])
      [] tool = "get_adam_product_info" -> get_adam_product_info(key, a[1])
      [] tool = "get_adam_datastructure_info" -> get_adam_datastructure_info(key, a[1], a[2])
      [] tool = "get_qrs_info" -> get_qrs_info(key, a[1], a[2])
      [] tool = "get_package_ct_info" -> get_package_ct_info(key, a[1])
      [] tool = "get_package_ct_codelist_info" -> get_package_ct_codelist_info(key, a[1], a[2])
      [] tool = "get_package_ct_codelist_term_info" ->
            get_package_ct_codelist_term_info(key, a[1], a[2], a[3])

\* decoded bodies the upstream answers with
Links == JObj(<<KV("self", JStr("/mdr/x")), KV("parentProduct", JStr("/mdr"))>>)
SmallObj == JObj(<<KV("name", JStr("SDTMIG")), KV("_links", Links)>>)
SmallList == JList(<<JStr("a"), JStr("b")>>)
PadObj(n) == JObj(<<KV("d", JPad(n))>>)
PadList(n) == JList(<<JPad(n)>>)
AdamBody(n) ==
    JObj(<<KV("name", JStr("ADSL")), KV("_links", Links),
           KV("analysisVariableSets", JList(<<
              JObj(<<KV("analysisVariables", JList(<<
                 JObj(<<KV("name", JStr("STUDYID")), KV("_links", Links),
                        KV("description", JPad(n))>>)>>))>>)>>))>>)
CtBody(n, m) ==
    JObj(<<KV("name", JStr("SDTM CT")),
           KV("codelists", JList(<<
              JObj(<<KV("conceptId", JStr("C66742")), KV("definition", JPad(n)),
                     KV("submissionValue", JPad(m)),
                     KV("terms", JList(<<
                        JObj(<<KV("conceptId", JStr("C49488")),
                               KV("submissionValue", JStr("Y")),
                               KV("preferredTerm", JStr("Yes"))>>)>>))>>)>>))>>)
Invalid == [t |-> "invalid"]
Bodies ==
    {SmallObj, SmallList, JStr("ok"), JNull, Invalid,
     AdamBody(2), AdamBody(MaxResponseChars), CtBody(2, 2), CtBody(MaxResponseChars, 2),
     CtBody(2, MaxResponseChars)}
    \cup {PadObj(MaxResponseChars - d) : d \in {7, 8, 9}}
    \cup {PadList(MaxResponseChars - d) : d \in {3, 4}}

\* the outcomes of client.get: a timeout, a connection-level failure (with the
\* exception's str(e)), or a response
Outcome(kind, cls, msg, status, text, json) ==
    [kind |-> kind, cls |-> cls, msg |-> msg, status |-> status, text |-> text, json |-> json]
\* statuses outside 2xx; a 3xx is not followed (follow_redirects is off by default)
StatusCodes == {302, 404, 500}
ErrorTexts == {<<Lit("Not Found")>>, <<Run("e", MaxResponseChars + 100)>>}
Outcomes ==
    {Outcome("timeout", "TimeoutException", m, 0, <<>>, JNull) :
        m \in {<<>>, <<Lit("timed out")>>}}
    \cup {Outcome("transport", c, m, 0, <<>>, JNull) :
        c \in {"ConnectError", "ReadError"}, m \in {<<>>, <<Lit("All connection attempts failed")>>}}
    \cup {Outcome("response", "", <<>>, st, t, JNull) : st \in StatusCodes, t \in ErrorTexts}
    \cup {Outcome("response", "", <<>>, 200, <<>>, b) : b \in Bodies}
NoOutcome == Outcome("none", "", <<>>, 0, <<>>, JNull)

\* the interpreter running the server: dict[slice] differs from Python 3.12 on
PyVersions == {"3.11", "3.12"}

-----------------------------------------------------------------------------
(* The state machine: one frame per invocation.                            *)
(*   pc: idle -> open -> send -> wait -> close -> done | raised -> idle    *)
(* done: the tool returned frame.result; raised: an exception left it.     *)

NoReq == [kind |-> "none", path |-> <<>>, query |-> "", key |-> None, timeout |-> 0]
Frame(pc, tool, args, req, sent, resp, result) ==
    [pc |-> pc, tool |-> tool, args |-> args, req |-> req, sent |-> sent,
     resp |-> resp, result |-> result]
Idle == Frame("idle", None, <<>>, NoReq, 0, NoOutcome, <<>>)

\* no tree is being shaped outside a try block
NoShape == [obj |-> JNull, out |-> JNull, steps |-> <<>>, visited |-> <<>>]

Init == /\ api_key \in ApiKeys
        /\ inv = [p \in {1} |-> Idle]
        /\ http_count = 0
        /\ ncalls = 0
        /\ shape = NoShape

\* a variable of the module that every invocation assigns its result to
SharedResult(p, f) ==
    [q \in DOMAIN inv |-> IF q = p THEN f ELSE [inv[q] EXCEPT !.result = f.result]]

\* the names a tool function assigns (response, data, result, ...) are its locals:
\* an assignment in invocation p changes the frame of p and no other
OwnFrame(p, f) == [inv EXCEPT ![p] = f]

\* the server calls a tool function with one of calls: it runs up to its first await
InvokeFrom(p, calls) ==
    /\ inv[p].pc = "idle"
    /\ ncalls < MaxCalls
    /\ \E call \in calls :
         LET c == Pre(call.tool, api_key, call.args)
         IN  inv' = [inv EXCEPT ![p] =
                        IF c.kind = "return"
                        THEN Frame("done", call.tool, call.args, NoReq, 0, NoOutcome, c.text)
                        ELSE Frame("open", call.tool, call.args, c, 0, NoOutcome, <<>>)]
    /\ ncalls' = ncalls + 1
    /\ UNCHANGED <<api_key, http_count, shape>>
Invoke(p) == InvokeFrom(p, Calls)

\* what the tool makes of an exception raised by the client itself
ClientError(p, msg) ==
    IF ClientInsideTry(inv[p].tool)
    THEN [inv[p] EXCEPT !.pc = "done",
                        !.result = handle(inv[p].tool, Raise(Exc("RuntimeError", msg))).text]
    ELSE [inv[p] EXCEPT !.pc = "raised", !.result = <<>>]

\* async with httpx.AsyncClient() as client: the client is created, or creating it fails
OpenClient(p) ==
    /\ inv[p].pc = "open"
    /\ \/ inv' = [inv EXCEPT ![p].pc = "send"]
       \/ inv' = [inv EXCEPT ![p] = ClientError(p, <<Lit("cannot create client")>>)]
    /\ UNCHANGED <<api_key, http_count, ncalls, shape>>

\* await client.get(url, headers=hdr, timeout=t): the request goes out; httpx refuses
\* to build a request whose 'api-key' header is None, and raises inside the try block
Send(p) ==
    /\ inv[p].pc = "send"
    /\ IF inv[p].req.key = None
       THEN /\ inv' = [inv EXCEPT ![p].pc = "close",
                                  ![p].result =
                                      handle(inv[p].tool, Raise(Exc("TypeError",
                                          <<Lit("Header value must be str or bytes")>>))).text]
            /\ UNCHANGED http_count
       ELSE /\ inv' = [inv EXCEPT ![p].pc = "wait", ![p].sent = @ + 1]
            /\ http_count' = http_count + 1
    /\ UNCHANGED <<api_key, ncalls, shape>>

\* the request completes with one of outcomes and the rest of the try block and its
\* except clauses run
ReceiveFrom(p, outcomes) ==
    /\ inv[p].pc = "wait"
    /\ \E o \in outcomes, py \in PyVersions :
         inv' = OwnFrame(p, [inv[p] EXCEPT
                    !.pc = "close",
                    !.resp = o,
                    !.result = handle(inv[p].tool, try_block(inv[p].tool, o, py)).text])
    /\ UNCHANGED <<api_key, http_count, ncalls, shape>>
Receive(p) == ReceiveFrom(p, Outcomes)

\* leaving the async with block closes the client, or closing it fails
CloseClient(p) ==
    /\ inv[p].pc = "close"
    /\ \/ inv' = [inv EXCEPT ![p].pc = "done"]
       \/ inv' = [inv EXCEPT ![p] = ClientError(p, <<Lit("cannot close client")>>)]
    /\ UNCHANGED <<api_key, http_count, ncalls, shape>>

\* the server takes the returned string, or the exception, and the frame is gone
Finish(p) ==
    /\ inv[p].pc \in {"done", "raised"}
    /\ inv' = [inv EXCEPT ![p] = Idle]
    /\ UNCHANGED <<api_key, http_count, ncalls, shape>>

Next == \/ \E p \in DOMAIN inv : Invoke(p)
        \/ \E p \in DOMAIN inv : OpenClient(p)
        \/ \E p \in DOMAIN inv : Send(p)
        \/ \E p \in DOMAIN inv : Receive(p)
        \/ \E p \in DOMAIN inv : CloseClient(p)
        \/ \E p \in DOMAIN inv : Finish(p)

Spec == Init /\ [][Next]_vars

-----------------------------------------------------------------------------
(* Concurrent invocations: the server runs tool functions as coroutines of one  *)
(* event loop, which interleave at their awaits (opening the client, the GET,   *)
(* closing the client). Two frames, a few calls and answers of every kind.      *)

Procs == {1, 2}
ConcurrentCalls ==
    {Call("get_CDISC_Library_api_product_list", <<>>),
     Call("get_sdtmig_class_info", <<"3-4", "Events">>),
     Call("get_adam_datastructure_info", <<"adamig-1-3", "ADSL">>),
     Call("get_adam_datastructure_info", <<"adam-9-9", "ADSL">>),
     Call("get_qrs_info", <<"AIMS01", "2-0">>),
     Call("get_package_ct_info", <<"sdtmct-2025-09-26">>)}
ConcurrentOutcomes ==
    {Outcome("timeout", "TimeoutException", <<Lit("timed out")>>, 0, <<>>, JNull),
     Outcome("response", "", <<>>, 404, <<Lit("Not Found")>>, JNull),
     Outcome("response", "", <<>>, 200, <<>>, SmallObj),
     Outcome("response", "", <<>>, 200, <<>>, AdamBody(2)),
     Outcome("response", "", <<>>, 200, <<>>, CtBody(2, 2))}

ConcurrentInit ==
    /\ api_key \in ApiKeys
    /\ inv = [p \in Procs |-> Idle]
    /\ http_count = 0
    /\ ncalls = 0
    /\ shape = NoShape

ConcurrentNext ==
    \/ \E p \in Procs : InvokeFrom(p, ConcurrentCalls)
    \/ \E p \in Procs : OpenClient(p)
    \/ \E p \in Procs : Send(p)
    \/ \E p \in Procs : ReceiveFrom(p, ConcurrentOutcomes)
    \/ \E p \in Procs : CloseClient(p)
    \/ \E p \in Procs : Finish(p)

ConcurrentSpec == ConcurrentInit /\ [][ConcurrentNext]_vars

-----------------------------------------------------------------------------
(* The calls the recursive shapers make. A position in a decoded tree is a path:
   a sequence of steps, [k |-> key] into an object and [i |-> index] into a
   list. A walk is the sequence of the positions a shaper is called at. *)

PKey(k) == [k |-> k]
PIdx(i) == [i |-> i]
IsKeyStep(step) == "k" \in DOMAIN step
\* obj.items() and the items of a list, each with the step that leads to it
ChildrenOfNode(v) ==
    IF isinstance_dict(v) THEN [i \in 1..Len(v.kv) |-> [step |-> PKey(v.kv[i].k), v |-> v.kv[i].v]]
    ELSE IF isinstance_list(v) THEN [i \in 1..Len(v.items) |-> [step |-> PIdx(i), v |-> v.items[i]]]
    ELSE <<>>

\* a walk with a second loop over the items of a list
RECURSIVE clear_walk_lists_twice(_, _), clear_walk_lists_twice_each(_, _)
clear_walk_lists_twice(obj, path) ==
    LET cleared == IF isinstance_dict(obj) /\ InDict(obj, "analysisVariables")
                   THEN SetItem(obj, "analysisVariables", JList(<<>>)) ELSE obj
        once == clear_walk_lists_twice_each(ChildrenOfNode(cleared), path)
    IN  <<path>> \o once \o (IF isinstance_list(obj) THEN once ELSE <<>>)
clear_walk_lists_twice_each(children, path) ==
    IF children = <<>> THEN <<>>
    ELSE clear_walk_lists_twice(Head(children).v, Append(path, Head(children).step))
         \o clear_walk_lists_twice_each(Tail(children), path)

\* the calls of remove_all_analysis_variables: the object itself, then, after the
\* assignment, every value of the object or every item of the list, in order
RECURSIVE clear_walk(_, _), clear_walk_each(_, _)
clear_walk(obj, path) ==
    LET cleared == IF isinstance_dict(obj) /\ InDict(obj, "analysisVariables")
                   THEN SetItem(obj, "analysisVariables", JList(<<>>)) ELSE obj
    IN  <<path>> \o clear_walk_each(ChildrenOfNode(cleared), path)
clear_walk_each(children, path) ==
    IF children = <<>> THEN <<>>
    ELSE clear_walk(Head(children).v, Append(path, Head(children).step))
         \o clear_walk_each(Tail(children), path)

\* the calls of remove_links_parent_refs: values are visited with their own key as
\* parent_key, list items with the list's
RECURSIVE prune_walk(_, _, _), prune_walk_each(_, _, _)
prune_walk(obj, parent_key, path) ==
    LET links == DictGet(obj, "_links")
        pruned ==
            IF isinstance_dict(obj) /\ parent_key = "analysisVariables"
               /\ InDict(obj, "_links") /\ isinstance_dict(links)
            THEN IF InDict(links, "self")
                 THEN SetItem(obj, "_links", JObj(<<KV("self", DictGet(links, "self"))>>))
                 ELSE SetItem(obj, "_links", JObj(<<>>))
            ELSE obj
    IN  <<path>> \o prune_walk_each(ChildrenOfNode(pruned), parent_key, path)
prune_walk_each(children, parent_key, path) ==
    IF children = <<>> THEN <<>>
    ELSE prune_walk(Head(children).v,
                    IF IsKeyStep(Head(children).step) THEN Head(children).step.k
                    ELSE parent_key,
                    Append(path, Head(children).step))
         \o prune_walk_each(Tail(children), parent_key, path)

-----------------------------------------------------------------------------
(* The response shapers on their own: a decoded tree is handed to           *)
(* remove_all_analysis_variables, to remove_links_parent_refs (as the tools *)
(* call it, without a parent key) or to the minification of                 *)
(* get_package_ct_info, up to MaxSteps times in any order.                  *)

MaxSteps == 2

\* values of a '_links' field: with and without 'self', not an object, and with a
\* 'self' entry that is an object with links of its own
LinkValues ==
    {Links, JObj(<<KV("parentProduct", JStr("/mdr"))>>), JStr("/mdr/x"),
     JObj(<<KV("self", JObj(<<KV("href", JStr("/mdr/x")), KV("_links", Links)>>)),
            KV("parentClass", JStr("/mdr"))>>)}
\* a variable: an entry of an analysisVariables list
Variables ==
    {JObj(<<KV("name", JStr("STUDYID")), KV("_links", l)>>) : l \in LinkValues}
    \cup {JObj(<<KV("_links", l), KV("codelist", JObj(<<KV("_links", Links)>>))>>) :
            l \in LinkValues}
    \cup {JObj(<<KV("name", JStr("STUDYID"))>>), JStr("STUDYID")}
\* a variable as the value of a key: itself, in a list, in a list of lists, beside another
Wrapped(e) ==
    {e, JList(<<e>>), JList(<<JList(<<e>>)>>),
     JList(<<e, JObj(<<KV("name", JStr("USUBJID")), KV("_links", Links)>>)>>)}
VariableKeys == {"analysisVariables", "variables"}
\* a response holding w under key k: beside the root's own links, inside a list of
\* sets, in a top-level list, and one key further down
Rooted(k, w) ==
    {JObj(<<KV("name", JStr("ADSL")), KV("_links", Links), KV(k, w)>>),
     JObj(<<KV("analysisVariableSets", JList(<<JObj(<<KV(k, w)>>)>>))>>),
     JList(<<JObj(<<KV(k, w)>>)>>),
     JObj(<<KV(k, JObj(<<KV("inner", w)>>))>>)}
\* responses with analysisVariables at two depths, neither inside the other
DeepTrees ==
    {JObj(<<KV("analysisVariables", JList(<<e>>)),
            KV("analysisVariableSets", JList(<<
                JObj(<<KV("name", JStr("Set")), KV("analysisVariables", JList(<<e, e>>)),
                       KV("_links", Links)>>)>>))>>) : e \in Variables}
\* terms and codelists of a controlled terminology package: with fields beyond the
\* two identifying ones, in another order, and with fields missing
CtTerms ==
    {JObj(<<KV("conceptId", JStr("C49488")), KV("submissionValue", JStr("Y")),
            KV("preferredTerm", JStr("Yes"))>>),
     JObj(<<KV("submissionValue", JStr("N")), KV("conceptId", JStr("C49487"))>>),
     JObj(<<KV("conceptId", JStr("C17998"))>>)}
CtTermLists ==
    {<<>>} \cup {<<t>> : t \in CtTerms} \cup {<<t, u>> : t, u \in CtTerms}
CtCodelists ==
    {JObj(<<KV("conceptId", JStr("C66742")), KV("definition", JStr("No Yes Response")),
            KV("submissionValue", JStr("NY")), KV("terms", JList(ts))>>) : ts \in CtTermLists}
    \cup {JObj(<<KV("submissionValue", JStr("AGEU")), KV("conceptId", JStr("C66781"))>>)}
CtTrees ==
    {JObj(<<KV("name", JStr("SDTM CT")), KV("codelists", JList(<<c>>))>>) : c \in CtCodelists}
    \cup {JObj(<<KV("codelists", JList(<<c, d>>)), KV("_links", Links)>>) :
            c \in CtCodelists, d \in {x \in CtCodelists : ~InDict(x, "definition")}}
    \cup {JObj(<<KV("codelists", JList(<<>>))>>)}
Trees ==
    UNION {UNION {UNION {Rooted(k, w) : w \in Wrapped(e)} : e \in Variables} :
             k \in VariableKeys}
    \cup DeepTrees \cup CtTrees
    \cup {SmallObj, CtBody(2, 2), JObj(<<>>)}

ShaperInit ==
    /\ api_key = None
    /\ inv = [p \in {1} |-> Idle]
    /\ http_count = 0
    /\ ncalls = 0
    /\ \E t \in Trees : shape = [obj |-> t, out |-> t, steps |-> <<>>, visited |-> <<>>]

\* remove_all_analysis_variables(json_data)
Clear ==
    /\ Len(shape.steps) < MaxSteps
    /\ shape' = [shape EXCEPT !.out = remove_all_analysis_variables(@),
                               !.steps = Append(@, "clear"),
                               !.visited = clear_walk(shape.out, <<>>)]
    /\ UNCHANGED <<api_key, inv, http_count, ncalls>>

\* remove_links_parent_refs(json_data)
Prune ==
    /\ Len(shape.steps) < MaxSteps
    /\ shape' = [shape EXCEPT !.out = remove_links_parent_refs(@, None),
                               !.steps = Append(@, "prune"),
                               !.visited = prune_walk(shape.out, None, <<>>)]
    /\ UNCHANGED <<api_key, inv, http_count, ncalls>>

\* the minification loop of get_package_ct_info, when it raises nothing
Flatten ==
    /\ Len(shape.steps) < MaxSteps
    /\ minimize_error(shape.out) = NoExc
    /\ shape' = [shape EXCEPT !.out = minimize(@), !.steps = Append(@, "flatten"),
                               !.visited = <<>>]
    /\ UNCHANGED <<api_key, inv, http_count, ncalls>>

ShaperNext == Clear \/ Prune \/ Flatten

ShaperSpec == ShaperInit /\ [][ShaperNext]_vars

-----------------------------------------------------------------------------
(* Vocabulary of the properties. *)

\* text[k:]
RECURSIVE Drop(_, _)
Drop(t, k) ==
    IF t = <<>> THEN <<>>
    ELSE IF k <= 0 THEN t
    ELSE IF Head(t).n <= k THEN Drop(Tail(t), k - Head(t).n)
    ELSE <<[Head(t) EXCEPT !.n = @ - k]>> \o Tail(t)

ErrorLabels == {"Error", "API Error", "Network Error", "Execution Error", "Unexpected Error"}
BeginsWith(text, label) == text # <<>> /\ text[1] = Lit(label)
BeginsWithErrorLabel(text) == \E l \in ErrorLabels : BeginsWith(text, l)

\* the text has value, or every entry of list, as a piece of its own
Names(text, value) == \E i \in 1..Len(text) : text[i] = Lit(value)
Enumerates(text, list) == \A i \in 1..Len(list) : Names(text, list[i])

\* the frame is that of a call in progress or just ended
Active(f) == f.pc # "idle"
\* the tool returned f.result without ever creating a client or sending a request
ReturnedEarly(f) == f.pc = "done" /\ f.req.kind = "none" /\ f.sent = 0

\* the tools with a flat allow-list parameter, the position of that parameter among
\* the arguments, and the list the source checks it against
FlatTools == (SlicingTools \ {"get_cdashig_scenarios_info"}) \cup CtTools
FlatArg(f) == IF f.tool \in CtTools THEN f.args[1] ELSE f.args[2]
FlatListOf(tool) ==
    CASE tool = "get_sdtmig_class_info" -> ALLOWED_sdtmig_class
      [] tool = "get_sdtmig_dataset_info" -> ALLOWED_sdtmig_dataset
      [] tool = "get_sdtm_model_class_info" -> ALLOWED_sdtm_model_class
      [] tool = "get_sdtm_model_dataset_info" -> ALLOWED_sdtm_model_dataset
      [] tool = "get_sendig_class_info" -> ALLOWED_sendig_class
      [] tool = "get_sendig_dataset_info" -> ALLOWED_sendig_dataset
      [] tool = "get_cdashig_class_info" -> ALLOWED_cdashig_class
      [] tool = "get_cdashig_domain_info" -> ALLOWED_cdashig_domain
      [] tool = "get_cdash_model_class_info" -> ALLOWED_cdash_model_class
      [] tool = "get_cdash_model_domain_info" -> ALLOWED_cdash_model_domain
      [] tool \in CtTools -> ct_package
      [] OTHER -> <<>>

\* the two-level tools and their maps
TwoLevelTools == {"get_adam_datastructure_info", "get_qrs_info"}
TwoLevelMap(tool) ==
    IF tool = "get_qrs_info" THEN ALLOWED_qrs_combinations
    ELSE ALLOWED_adam_datastructure_combinations

-----------------------------------------------------------------------------
(* C1: in a tool with a flat allow-list parameter (className, dataset, domains,
   domain, package), a non-empty value that is not an exact, case-sensitive member
   of the tool's list makes the call return an error string at once: no client is
   created and no HTTP request is issued. *)
FlatInvalid(f) ==
    /\ f.tool \in FlatTools
    /\ Truthy(FlatArg(f))
    /\ ~InList(FlatArg(f), FlatListOf(f.tool))
C1_FlatRejectsBeforeNetwork ==
    \A p \in DOMAIN inv :
        (Active(inv[p]) /\ FlatInvalid(inv[p]))
            => /\ ReturnedEarly(inv[p])
               /\ BeginsWith(inv[p].result, "Error")
\* a wrongly-cased class name was rejected with the credential set
C1_Witness ==
    \E p \in DOMAIN inv :
        /\ api_key = "k"
        /\ inv[p].tool = "get_sdtmig_class_info" /\ inv[p].args = <<"3-4", "events">>
        /\ inv[p].pc = "done"
        /\ inv[p].result = InvalidValue("className", "events")
        /\ http_count = 0

-----------------------------------------------------------------------------
(* C2 (as claimed): every caller-supplied identifier that goes into the request
   path, version, scenario, codelist, term and the product of
   get_adam_product_info included, has been checked against a static allow-list:
   no request is issued whose path holds a supplied value outside its allow-list. *)

\* the allow-list the tool of frame f checks its i-th argument against; the empty
\* list where the source has none
AllowListOf(f, i) ==
    CASE f.tool \in FlatTools /\ i = (IF f.tool \in CtTools THEN 1 ELSE 2) -> FlatListOf(f.tool)
      [] f.tool \in TwoLevelTools /\ i = 1 -> Keys(TwoLevelMap(f.tool))
      [] f.tool \in TwoLevelTools /\ i = 2 ->
            IF HasKey(TwoLevelMap(f.tool), f.args[1])
            THEN GetItem(TwoLevelMap(f.tool), f.args[1]) ELSE <<>>
      [] OTHER -> <<>>
\* the arguments of f that the tool puts into the path: all but an omitted or empty
\* optional one
Interpolated(f) == {i \in 1..Len(f.args) : Truthy(f.args[i])}
C2_EveryIdentifierChecked ==
    \A p \in DOMAIN inv :
        inv[p].sent > 0 =>
            \A i \in Interpolated(inv[p]) : InList(inv[p].args[i], AllowListOf(inv[p], i))

(* C2 (amended): the identifiers that have an allow-list in the source (className,
   dataset, domains, domain, package; product and datastructure of
   get_adam_datastructure_info; instrument and version of get_qrs_info) are
   checked before the request is built: no request is built, let alone issued,
   with one of them outside its list.  The others go into the path unchecked. *)
Guarded(f) ==
    IF f.tool \in TwoLevelTools THEN {1, 2}
    ELSE IF f.tool \in CtTools THEN {1}
    ELSE IF f.tool \in FlatTools /\ Truthy(f.args[2]) THEN {2}
    ELSE {}
C2_GuardedIdentifiersChecked ==
    \A p \in DOMAIN inv :
        inv[p].req.kind = "request" =>
            \A i \in Guarded(inv[p]) : InList(inv[p].args[i], AllowListOf(inv[p], i))
\* a request is in flight with a checked class name and a version no list holds
C2_Witness ==
    \E p \in DOMAIN inv :
        /\ inv[p].tool = "get_sdtmig_class_info" /\ inv[p].args = <<"9-9", "Events">>
        /\ inv[p].pc = "wait" /\ inv[p].sent = 1
        /\ inv[p].req.path = <<"sdtmig", "9-9", "classes", "Events", "datasets">>

-----------------------------------------------------------------------------
(* C3 (as claimed): each of the 18 tools, get_CDISC_Library_api_product_list
   included, called while CDISC_API_KEY is unset or empty returns the fixed string
   "Error: CDISC_API_KEY environment variable not found." and issues no request. *)
C3_MissingKeyShortCircuits ==
    \A p \in DOMAIN inv :
        (~Truthy(api_key) /\ Active(inv[p]))
            => ReturnedEarly(inv[p]) /\ inv[p].result = MissingKey

-----------------------------------------------------------------------------
(* The successful responses and what a tool serializes of them. *)

\* the upstream answered 2xx with a body that decodes
Decoded(f) ==
    /\ f.sent > 0 /\ f.resp.kind = "response"
    /\ is_success(f.resp.status) /\ f.resp.json.t # "invalid"
\* the decoded value after the tool's shaper, where the shaper applies to it
Shapable(f) == f.tool = "get_package_ct_info" => minimize_error(f.resp.json) = NoExc
Shaped(f) ==
    CASE f.tool = "get_adam_product_info" -> remove_all_analysis_variables(f.resp.json)
      [] f.tool = "get_adam_datastructure_info" -> remove_links_parent_refs(f.resp.json, None)
      [] f.tool = "get_package_ct_info" -> minimize(f.resp.json)
      [] OTHER -> f.resp.json
\* the serialized text S, and the marker the tool's source appends
Serialized(f) ==
    IF f.tool \in CtTools THEN json_dumps_compact(Shaped(f)) ELSE json_dumps(Shaped(f))
MarkerOf(tool) == IF tool \in CtTools THEN TruncatedMarker ELSE TooLongMarker
\* the tools that cut the serialized string: result[:130000] + marker
CuttingTools == Tools \ (SlicingTools \cup {"get_CDISC_Library_api_product_list"})

(* C4 (as claimed): in every tool, for a successful response whose serialized
   text S has length L, the string the tool returns is S when L <= 130000, and the
   first 130000 characters of S followed by the marker when L > 130000. *)
C4_TruncationExact ==
    \A p \in DOMAIN inv :
        (inv[p].pc = "close" /\ Decoded(inv[p]) /\ Shapable(inv[p]))
            => inv[p].result =
                  IF TextLen(Serialized(inv[p])) > MaxResponseChars
                  THEN Take(Serialized(inv[p]), MaxResponseChars) \o MarkerOf(inv[p].tool)
                  ELSE Serialized(inv[p])

(* C5 (as claimed): in every tool, a 2xx response with a JSON object or array as
   body, of any size, never yields a string that begins with an error label. *)
C5_SuccessNeverError ==
    \A p \in DOMAIN inv :
        (inv[p].pc = "close" /\ Decoded(inv[p]) /\ inv[p].resp.json.t \in {"dict", "list"})
            => ~BeginsWithErrorLabel(inv[p].result)

(* C6 (as claimed): every string any tool returns, on any path, is at most 130000
   characters plus the length of the truncation marker long. *)
C6_LengthCapped ==
    \A p \in DOMAIN inv :
        inv[p].pc = "done"
            => TextLen(inv[p].result) <= MaxResponseChars + TextLen(TooLongMarker)

(* C7 (as claimed): every tool that cuts an over-long result appends one and the
   same marker, the one get_adam_datastructure_info appends. *)
C7_UniformMarker ==
    \A p \in DOMAIN inv :
        (/\ inv[p].pc = "close" /\ Decoded(inv[p]) /\ Shapable(inv[p])
         /\ inv[p].tool \in CuttingTools
         /\ TextLen(Serialized(inv[p])) > MaxResponseChars)
            => Drop(inv[p].result, MaxResponseChars) = TooLongMarker

-----------------------------------------------------------------------------
(* C8: in get_adam_datastructure_info and get_qrs_info with the credential set, a
   parent (product, instrument) that is no key of the map is rejected with an
   error naming it and listing all the valid parents; a child (datastructure,
   version) that is not in its parent's list is rejected with an error listing the
   children of that parent and no others; neither issues an HTTP request. *)

\* what the message lists after its introduction of intro pieces
ListedPart(text, intro) == SubSeq(text, intro + 1, Len(text))
C8_TwoLevelRejection ==
    \A p \in DOMAIN inv :
        LET f == inv[p]
            d == TwoLevelMap(f.tool)
        IN  (Truthy(api_key) /\ Active(f) /\ f.tool \in TwoLevelTools)
            => /\ ~HasKey(d, f.args[1])
                    => /\ ReturnedEarly(f)
                       /\ BeginsWith(f.result, "Error")
                       /\ f.result[3] = Lit(f.args[1])
                       /\ ListedPart(f.result, 4) = Join(", ", Keys(d))
               /\ (HasKey(d, f.args[1]) /\ ~InList(f.args[2], GetItem(d, f.args[1])))
                    => /\ ReturnedEarly(f)
                       /\ BeginsWith(f.result, "Error")
                       /\ f.result[3] = Lit(f.args[2]) /\ f.result[5] = Lit(f.args[1])
                       /\ ListedPart(f.result, 6) = Join(", ", GetItem(d, f.args[1]))
\* a datastructure of another product was rejected with the list of its own product
C8_Witness ==
    \E p \in DOMAIN inv :
        /\ api_key = "k" /\ inv[p].pc = "done"
        /\ inv[p].tool = "get_adam_datastructure_info"
        /\ inv[p].args = <<"adamig-1-3", "AE">>
        /\ ListedPart(inv[p].result, 6) = <<Lit("ADSL"), Lit(", "), Lit("BDS"), Lit(", "), Lit("TTE")>>
        /\ http_count = 0

-----------------------------------------------------------------------------
(* C9 (as claimed): the rejection message for an invalid value of a flat
   allow-list parameter names the value and enumerates the valid alternatives. *)
C9_FlatMessageEnumerates ==
    \A p \in DOMAIN inv :
        (Truthy(api_key) /\ inv[p].pc = "done" /\ FlatInvalid(inv[p]))
            => /\ Names(inv[p].result, FlatArg(inv[p]))
               /\ Enumerates(inv[p].result, FlatListOf(inv[p].tool))

-----------------------------------------------------------------------------
(* C10 (as claimed): every invocation ends by returning a string; no exception
   leaves a tool function, whichever step fails: the request, the status, the
   decoding, the shaping, or creating or closing the HTTP client. *)
C10_NoExceptionEscapes == \A p \in DOMAIN inv : inv[p].pc # "raised"

-----------------------------------------------------------------------------
(* The failure paths of a request. *)

\* the request went out and ended as a timeout, or with a status outside 2xx
TimedOut(f) == f.pc = "close" /\ f.sent > 0 /\ f.resp.kind = "timeout"
NonSuccess(f) ==
    /\ f.pc = "close" /\ f.sent > 0 /\ f.resp.kind = "response"
    /\ ~(200 <= f.resp.status /\ f.resp.status <= 299)
\* the strings the tool returns for the connection-level failures of a request
TransportResults(tool) ==
    {handle(tool, try_block(tool, o, "3.12")).text : o \in {x \in Outcomes : x.kind = "transport"}}
\* text has part as a run of consecutive pieces
Contains(text, part) ==
    \E i \in 1..(Len(text) - Len(part) + 1) : SubSeq(text, i, i + Len(part) - 1) = part

(* C11 (as claimed): in every tool, a request that exceeds its timeout yields a
   string that no connection-level failure of the same tool yields. *)
C11_TimeoutDistinct ==
    \A p \in DOMAIN inv :
        TimedOut(inv[p]) => inv[p].result \notin TransportResults(inv[p].tool)

(* C12: in every tool, a response with a status code c outside 2xx yields a string
   that begins with the label 'API Error' and has the decimal digits of c in it; it
   begins with no other label. *)
C12_StatusIsApiError ==
    \A p \in DOMAIN inv :
        NonSuccess(inv[p])
            => /\ BeginsWith(inv[p].result, "API Error")
               /\ Names(inv[p].result, IntToStr(inv[p].resp.status))
               /\ \A l \in ErrorLabels \ {"API Error"} : ~BeginsWith(inv[p].result, l)
\* a redirect answered to a controlled terminology tool was reported as an API Error
C12_Witness ==
    \E p \in DOMAIN inv :
        /\ NonSuccess(inv[p]) /\ inv[p].resp.status = 302
        /\ inv[p].tool = "get_package_ct_info"
        /\ inv[p].result = <<Lit("API Error"), Lit(": HTTP "), Lit("302"), Lit(" - "), Lit("Not Found")>>

(* C13 (as claimed): in every tool, the string returned for a response outside 2xx
   has both the status code and the text of the response body in it. *)
C13_StatusAndBody ==
    \A p \in DOMAIN inv :
        NonSuccess(inv[p])
            => /\ Names(inv[p].result, IntToStr(inv[p].resp.status))
               /\ Contains(inv[p].result, inv[p].resp.text)

-----------------------------------------------------------------------------
(* C14: the first piece of a returned string tells errors from payloads. A string
   returned by the try block's own return statement (the serialized JSON, shaped
   or cut) opens as a JSON text does and begins with no error label; a string
   returned before the request (missing credential, rejected value) or by an
   except clause begins with one of the five labels. *)

\* the try block ran to a return statement; it raised into the except clauses
TryReturned(f) ==
    /\ f.pc = "close" /\ f.sent > 0
    /\ \A py \in PyVersions : try_block(f.tool, f.resp, py).kind = "return"
TryRaised(f) ==
    /\ f.pc = "close"
    /\ \/ f.sent = 0
       \/ \A py \in PyVersions : try_block(f.tool, f.resp, py).kind = "raise"
JsonOpeners == {Lit("{"), Lit("["), Lit("\""), Lit("null")}
C14_LabelSeparates ==
    \A p \in DOMAIN inv :
        /\ TryReturned(inv[p])
              => /\ inv[p].result # <<>> /\ inv[p].result[1] \in JsonOpeners
                 /\ ~BeginsWithErrorLabel(inv[p].result)
        /\ (TryRaised(inv[p]) \/ ReturnedEarly(inv[p]))
              => BeginsWithErrorLabel(inv[p].result)
\* a body that is no JSON was answered with 200 and reported under a label
C14_Witness ==
    \E p \in DOMAIN inv :
        /\ inv[p].pc = "close" /\ inv[p].sent = 1
        /\ inv[p].tool = "get_qrs_info"
        /\ inv[p].resp.kind = "response" /\ inv[p].resp.status = 200
        /\ inv[p].resp.json = Invalid
        /\ BeginsWith(inv[p].result, "Execution Error")

-----------------------------------------------------------------------------
(* C15 (as claimed): an invocation issues at most one HTTP GET: none when the
   credential is unset or empty or a value is rejected, exactly one otherwise by
   the time its try block is left; this holds for every invocation, a repeated one
   with equal arguments included. *)

\* the invocation's arguments fail one of the source's membership tests
TwoLevelInvalid(f) ==
    /\ f.tool \in TwoLevelTools
    /\ \/ ~HasKey(TwoLevelMap(f.tool), f.args[1])
       \/ ~InList(f.args[2], GetItem(TwoLevelMap(f.tool), f.args[1]))
Rejected(f) ==
    \/ FlatInvalid(f)
    \/ f.tool \in CtTools /\ ~InList(f.args[1], ct_package)
    \/ TwoLevelInvalid(f)
C15_OneRequestPerInvocation ==
    \A p \in DOMAIN inv :
        Active(inv[p])
            => /\ inv[p].sent <= 1
               /\ (~(api_key # None /\ api_key # "") \/ Rejected(inv[p])) => inv[p].sent = 0
               /\ (inv[p].pc = "close" /\ api_key # None /\ api_key # "" /\ ~Rejected(inv[p]))
                      => inv[p].sent = 1

-----------------------------------------------------------------------------
(* C16: in a tool whose second argument names a child (className, dataset,
   domains, domain, scenario), with the credential set: when the argument is None
   or '' no membership test is made and the request goes to the collection
   .../{standard}/{version}/{collection}; when it is non-empty and passes the
   tool's test, the request path is that base path extended by the argument. *)

\* the standard and the collection in a tool's base_url
StandardOf(tool) ==
    CASE tool \in {"get_sdtmig_class_info", "get_sdtmig_dataset_info"} -> "sdtmig"
      [] tool \in {"get_sdtm_model_class_info", "get_sdtm_model_dataset_info"} -> "sdtm"
      [] tool \in {"get_sendig_class_info", "get_sendig_dataset_info"} -> "sendig"
      [] tool \in {"get_cdashig_class_info", "get_cdashig_domain_info",
                   "get_cdashig_scenarios_info"} -> "cdashig"
      [] tool \in {"get_cdash_model_class_info", "get_cdash_model_domain_info"} -> "cdash"
CollectionOf(tool) ==
    CASE tool \in {"get_sdtmig_class_info", "get_sdtm_model_class_info", "get_sendig_class_info",
                   "get_cdashig_class_info", "get_cdash_model_class_info"} -> "classes"
      [] tool \in {"get_sdtmig_dataset_info", "get_sdtm_model_dataset_info",
                   "get_sendig_dataset_info"} -> "datasets"
      [] tool \in {"get_cdashig_domain_info", "get_cdash_model_domain_info"} -> "domains"
      [] tool = "get_cdashig_scenarios_info" -> "scenarios"
BasePath(f) == <<StandardOf(f.tool), f.args[1], CollectionOf(f.tool)>>
-----------------------------------------------------------------------------
(* Positions in a decoded tree, as sets. *)

RECURSIVE Paths(_)
Paths(v) ==
    {<<>>}
    \cup (IF isinstance_dict(v)
          THEN UNION {{<<PKey(v.kv[i].k)>> \o q : q \in Paths(v.kv[i].v)} : i \in 1..Len(v.kv)}
          ELSE IF isinstance_list(v)
          THEN UNION {{<<PIdx(i)>> \o q : q \in Paths(v.items[i])} : i \in 1..Len(v.items)}
          ELSE {})
RECURSIVE At(_, _)
At(v, path) ==
    IF path = <<>> THEN v
    ELSE IF IsKeyStep(Head(path)) THEN At(DictGet(v, Head(path).k), Tail(path))
    ELSE At(v.items[Head(path).i], Tail(path))
Front(path) == SubSeq(path, 1, Len(path) - 1)
\* the key a position was reached under: the last key step, list indices passed over
RECURSIVE Under(_)
Under(path) ==
    IF path = <<>> THEN None
    ELSE IF IsKeyStep(path[Len(path)]) THEN path[Len(path)].k
    ELSE Under(Front(path))
\* a node without its children: an object's keys in order, a list's length, a leaf
Shallow(v) ==
    IF isinstance_dict(v) THEN [t |-> "dict", keys |-> [i \in 1..Len(v.kv) |-> v.kv[i].k]]
    ELSE IF isinstance_list(v) THEN [t |-> "list", len |-> Len(v.items)]
    ELSE v
HasAnalysisVariables(v) ==
    \E path \in Paths(v) : \E i \in 1..Len(path) : path[i] = PKey("analysisVariables")
\* only the shapers of the ADaM tools have run
OnlyAdamSteps == \A i \in 1..Len(shape.steps) : shape.steps[i] \in {"clear", "prune"}

-----------------------------------------------------------------------------
(* C17: remove_all_analysis_variables is idempotent: on every tree, clearing
   twice leaves what clearing once leaves. *)
C17_ClearIdempotent ==
    shape.steps = <<"clear">>
        => remove_all_analysis_variables(shape.out) = shape.out
\* a tree with two analysis variables was cleared twice
C17_Witness ==
    /\ shape.steps = <<"clear", "clear">>
    /\ \E path \in Paths(shape.obj) :
          /\ Under(path) = "analysisVariables" /\ isinstance_list(At(shape.obj, path))
          /\ Len(At(shape.obj, path).items) = 2
    /\ shape.out # shape.obj
    /\ shape.out = remove_all_analysis_variables(shape.obj)

(* C18: on a tree with no 'analysisVariables' key at any depth,
   remove_all_analysis_variables and remove_links_parent_refs each return the
   tree as it was, however often and in whatever order they are applied. *)
C18_NoTargetUnchanged ==
    (shape.steps # <<>> /\ OnlyAdamSteps /\ ~HasAnalysisVariables(shape.obj))
        => shape.out = shape.obj
\* a tree with links under 'variables' went through the pruning
C18_Witness ==
    /\ shape.steps = <<"prune">>
    /\ shape.obj = JObj(<<KV("name", JStr("ADSL")), KV("_links", Links),
                          KV("variables", JList(<<
                              JObj(<<KV("name", JStr("STUDYID")), KV("_links", Links)>>)>>))>>)
    /\ shape.out = shape.obj

(* C19 (as claimed): on a decoded object with no 'codelists' field the
   minification of get_package_ct_info returns the object as it was. *)
C19_NoCodelistsUnchanged ==
    (shape.steps = <<"flatten">> /\ isinstance_dict(shape.obj)
     /\ ~InDict(shape.obj, "codelists"))
        => shape.out = shape.obj

-----------------------------------------------------------------------------
(* C20: after remove_links_parent_refs, an object's '_links' is {'self': the
   original self entry}, or {} when it had no 'self', exactly when the object was
   reached under the key 'analysisVariables' (as its value or through lists) and
   its '_links' was an object; every other node is what it was: same keys in the
   same order, same list lengths, same leaves; nothing but the non-self entries
   of those '_links' is gone. *)

\* the object at path is one whose links the pruning replaces
Prunable(tree, path) ==
    /\ isinstance_dict(At(tree, path))
    /\ Under(path) = "analysisVariables"
    /\ InDict(At(tree, path), "_links")
    /\ isinstance_dict(DictGet(At(tree, path), "_links"))
IsPrunedLinks(tree, path) ==
    /\ path # <<>> /\ path[Len(path)] = PKey("_links")
    /\ Prunable(tree, Front(path))
\* path runs through an entry other than 'self' of replaced links
Dropped(tree, path) ==
    \E n \in 1..(Len(path) - 1) :
        /\ IsPrunedLinks(tree, SubSeq(path, 1, n))
        /\ path[n + 1] # PKey("self")
C20_PruneExactly ==
    shape.steps = <<"prune">>
        => /\ \A path \in Paths(shape.out) :
                /\ path \in Paths(shape.obj)
                /\ Shallow(At(shape.out, path)) =
                      IF IsPrunedLinks(shape.obj, path)
                      THEN [t |-> "dict",
                            keys |-> IF InDict(At(shape.obj, path), "self")
                                     THEN <<"self">> ELSE <<>>]
                      ELSE Shallow(At(shape.obj, path))
           /\ \A path \in Paths(shape.obj) :
                path \in Paths(shape.out) <=> ~Dropped(shape.obj, path)
\* a variable inside a list of lists lost its parent link, the root kept its own
C20_Witness ==
    /\ shape.steps = <<"prune">>
    /\ shape.obj = JObj(<<KV("name", JStr("ADSL")), KV("_links", Links),
                          KV("analysisVariables", JList(<<JList(<<
                              JObj(<<KV("name", JStr("STUDYID")), KV("_links", Links)>>)>>)>>))>>)
    /\ shape.out = JObj(<<KV("name", JStr("ADSL")), KV("_links", Links),
                          KV("analysisVariables", JList(<<JList(<<
                              JObj(<<KV("name", JStr("STUDYID")),
                                     KV("_links", JObj(<<KV("self", JStr("/mdr/x"))>>))>>)>>)>>))>>)

-----------------------------------------------------------------------------
(* C21 (as claimed): whichever shaper runs, every field of its output was a field
   at the same position of its input, the fields an object keeps stand in their
   original order, a list keeps no more elements than it had, and every leaf is
   the input's leaf: nothing is added. *)

RECURSIVE IsSubsequence(_, _)
IsSubsequence(a, b) ==
    IF a = <<>> THEN TRUE
    ELSE IF b = <<>> THEN FALSE
    ELSE IF Head(a) = Head(b) THEN IsSubsequence(Tail(a), Tail(b))
    ELSE IsSubsequence(a, Tail(b))
\* the node of the output restricts the node of the input
Restricts(o, i) ==
    IF isinstance_dict(o)
    THEN isinstance_dict(i) /\ IsSubsequence(Shallow(o).keys, Shallow(i).keys)
    ELSE IF isinstance_list(o)
    THEN o.items = <<>> \/ (isinstance_list(i) /\ Len(o.items) <= Len(i.items))
    ELSE o = i
C21_ShapingOnlyRemoves ==
    Len(shape.steps) = 1
        => \A path \in Paths(shape.out) :
              /\ path \in Paths(shape.obj)
              /\ path \in Paths(shape.obj)
                    => Restricts(At(shape.out, path), At(shape.obj, path))

-----------------------------------------------------------------------------
(* C23: after remove_all_analysis_variables, every 'analysisVariables' key that
   is not inside the value of another one maps to the empty list; every other
   node that is left is what it was (same keys in the same order, same list
   lengths, same leaves), and only what was inside an 'analysisVariables' value
   is gone. *)

IsAnalysisVariables(path) ==
    path # <<>> /\ path[Len(path)] = PKey("analysisVariables")
\* the position lies strictly inside the value of an 'analysisVariables' key
InsideCleared(path) ==
    \E n \in 1..(Len(path) - 1) : IsAnalysisVariables(SubSeq(path, 1, n))
C23_ClearExactly ==
    shape.steps = <<"clear">>
        => /\ \A path \in Paths(shape.out) :
                /\ path \in Paths(shape.obj)
                /\ Shallow(At(shape.out, path)) =
                      IF IsAnalysisVariables(path) THEN [t |-> "list", len |-> 0]
                      ELSE Shallow(At(shape.obj, path))
           /\ \A path \in Paths(shape.obj) :
                path \in Paths(shape.out) <=> ~InsideCleared(path)
\* the variables of the root and those of a set below it were both emptied
C23_Witness ==
    /\ shape.steps = <<"clear">>
    /\ shape.obj \in DeepTrees
    /\ shape.out =
          JObj(<<KV("analysisVariables", JList(<<>>)),
                 KV("analysisVariableSets", JList(<<
                     JObj(<<KV("name", JStr("Set")), KV("analysisVariables", JList(<<>>)),
                            KV("_links", Links)>>)>>))>>)

-----------------------------------------------------------------------------
(* C24: for a response of get_package_ct_info with a list of codelists, what is
   serialized is {'codelists': [...]}: one group per codelist in the same order,
   each with exactly conceptId, submissionValue and terms; terms with one entry
   per term of the codelist in the same order, each with exactly conceptId and
   submissionValue; the values are the input's; nothing else is kept. *)

\* the fields the source reads, as .get returns them
Identifying(v) == <<DictGet(v, "conceptId"), DictGet(v, "submissionValue")>>
TermsOf(cl) == IF InDict(cl, "terms") THEN DictGet(cl, "terms").items ELSE <<>>
C24_FlattenExactly ==
    (/\ shape.steps = <<"flatten">>
     /\ isinstance_dict(shape.obj) /\ InDict(shape.obj, "codelists")
     /\ isinstance_list(DictGet(shape.obj, "codelists")))
        => LET cls == DictGet(shape.obj, "codelists").items
               groups == DictGet(shape.out, "codelists").items
           IN  /\ Shallow(shape.out) = [t |-> "dict", keys |-> <<"codelists">>]
               /\ Len(groups) = Len(cls)
               /\ \A g \in 1..Len(groups) :
                    /\ Shallow(groups[g]) =
                          [t |-> "dict", keys |-> <<"conceptId", "submissionValue", "terms">>]
                    /\ Identifying(groups[g]) = Identifying(cls[g])
                    /\ Len(TermsOf(groups[g])) = Len(TermsOf(cls[g]))
                    /\ \A t \in 1..Len(TermsOf(groups[g])) :
                          /\ Shallow(TermsOf(groups[g])[t]) =
                                [t |-> "dict", keys |-> <<"conceptId", "submissionValue">>]
                          /\ Identifying(TermsOf(groups[g])[t]) = Identifying(TermsOf(cls[g])[t])
\* two codelists, the first with two terms, were flattened
C24_Witness ==
    /\ shape.steps = <<"flatten">>
    /\ InDict(shape.obj, "_links")
    /\ InDict(shape.obj, "codelists") /\ isinstance_list(DictGet(shape.obj, "codelists"))
    /\ Len(DictGet(shape.obj, "codelists").items) = 2
    /\ Len(TermsOf(DictGet(shape.obj, "codelists").items[1])) = 2
    /\ InDict(TermsOf(DictGet(shape.obj, "codelists").items[1])[1], "preferredTerm")
    /\ ~InDict(shape.out, "_links")
    /\ Len(TermsOf(DictGet(shape.out, "codelists").items[1])) = 2

-----------------------------------------------------------------------------
(* C28: on a finite tree remove_all_analysis_variables and
   remove_links_parent_refs make finitely many calls: one for each node of the
   tree they leave behind, none twice. *)
LastStep == shape.steps[Len(shape.steps)]
C28_WalkVisitsOnce ==
    (shape.steps # <<>> /\ LastStep \in {"clear", "prune"})
        => /\ \A i, j \in 1..Len(shape.visited) :
                shape.visited[i] = shape.visited[j] => i = j
           /\ {shape.visited[i] : i \in 1..Len(shape.visited)} = Paths(shape.out)
\* a pruning walked a tree with a variable inside a list of lists
C28_Witness ==
    /\ shape.steps = <<"prune">>
    /\ shape.out # shape.obj
    /\ Len(shape.visited) = Cardinality(Paths(shape.out))
    /\ \E i \in 1..Len(shape.visited) :
          /\ Len(shape.visited[i]) >= 3
          /\ SubSeq(shape.visited[i], 1, 3) = <<PKey("analysisVariables"), PIdx(1), PIdx(1)>>

-----------------------------------------------------------------------------
(* C25 (as claimed): every request for a list-style sub-resource (the datasets of
   an SDTMIG class, the domains of a CDASHIG class, the product list) has the
   query 'expand=false'. *)
ListStyle(f) ==
    /\ f.req.kind = "request"
    /\ \/ f.tool = "get_CDISC_Library_api_product_list"
       \/ /\ f.tool \in {"get_sdtmig_class_info", "get_cdashig_class_info"}
          /\ Len(f.req.path) = 5 /\ f.req.path[5] \in {"datasets", "domains"}
C25_ListRequestsUnexpanded ==
    \A p \in DOMAIN inv : ListStyle(inv[p]) => inv[p].req.query = "expand=false"

-----------------------------------------------------------------------------
(* C26: the request path of a tool with several identifiers has each parent
   before its child, as the allow-lists nest them, and holds the supplied values
   as they were given: adam/{product}/datastructures/{datastructure},
   qrs/instruments/{instrument}/versions/{version},
   ct/packages/{package}/codelists/{codelist}[/terms/{term}]. *)
C26_ParentBeforeChild ==
    \A p \in DOMAIN inv :
        LET f == inv[p]
        IN  f.req.kind = "request"
            => /\ f.tool = "get_adam_datastructure_info"
                    => f.req.path = <<"adam", f.args[1], "datastructures", f.args[2]>>
               /\ f.tool = "get_qrs_info"
                    => f.req.path = <<"qrs", "instruments", f.args[1], "versions", f.args[2]>>
               /\ f.tool = "get_package_ct_codelist_info"
                    => f.req.path = <<"ct", "packages", f.args[1], "codelists", f.args[2]>>
               /\ f.tool = "get_package_ct_codelist_term_info"
                    => f.req.path = <<"ct", "packages", f.args[1], "codelists", f.args[2],
                                      "terms", f.args[3]>>
\* a request for a version of an instrument is in flight
C26_Witness ==
    \E p \in DOMAIN inv :
        /\ inv[p].pc = "wait" /\ inv[p].tool = "get_qrs_info"
        /\ inv[p].args = <<"AIMS01", "2-0">>
        /\ inv[p].req.path = <<"qrs", "instruments", "AIMS01", "versions", "2-0">>

-----------------------------------------------------------------------------
(* C29: in the tools that test both, the credential is tested first: with the
   credential unset or empty and an identifier that fails its test, the fixed
   missing-credential string is returned; a string returned before the request
   that is not that one is returned only with the credential set. *)
C29_CredentialBeforeValidation ==
    \A p \in DOMAIN inv :
        LET f == inv[p]
        IN  (Active(f) /\ f.tool \in FlatTools \cup TwoLevelTools)
            => /\ (api_key \in {None, ""} /\ Rejected(f))
                    => ReturnedEarly(f) /\ f.result = MissingKey
               /\ (ReturnedEarly(f) /\ f.result # MissingKey) => api_key \notin {None, ""}
\* an unknown product was asked for with an empty credential
C29_Witness ==
    \E p \in DOMAIN inv :
        /\ api_key = "" /\ inv[p].pc = "done"
        /\ inv[p].tool = "get_adam_datastructure_info" /\ inv[p].args = <<"adam-9-9", "ADSL">>
        /\ inv[p].result = MissingKey

-----------------------------------------------------------------------------
(* C30: with the credential set, an empty product, datastructure, instrument,
   version (of get_qrs_info) or package is no request for a listing: the
   membership test rejects it with a validation error and nothing is sent. *)
HasEmptyRequired(f) ==
    \/ f.tool \in TwoLevelTools /\ (f.args[1] = "" \/ f.args[2] = "")
    \/ f.tool \in CtTools /\ f.args[1] = ""
C30_EmptyRequiredRejected ==
    \A p \in DOMAIN inv :
        LET f == inv[p]
        IN  (api_key = "k" /\ Active(f) /\ HasEmptyRequired(f))
            => /\ ReturnedEarly(f) /\ f.sent = 0
               /\ BeginsWith(f.result, "Error") /\ f.result # MissingKey
\* an empty version of a known instrument was rejected with that instrument's versions
C30_Witness ==
    \E p \in DOMAIN inv :
        /\ api_key = "k" /\ inv[p].pc = "done"
        /\ inv[p].tool = "get_qrs_info" /\ inv[p].args = <<"AIMS01", "">>
        /\ inv[p].result = InvalidChild("version", "", "instrument", "AIMS01",
                                        ALLOWED_qrs_combinations)
        /\ http_count = 0

-----------------------------------------------------------------------------
(* C27 (as claimed): with a client that honours the timeout it is given, every
   invocation that has issued its request eventually returns a string. The
   timeout makes the pending request end (as a response, a failure or a
   timeout), and the event loop runs every step that is ready: weak fairness of
   the steps. *)
FairSpec == Spec /\ WF_vars(Next)
C27_EventuallyReturns ==
    \A p \in {1} : (inv[p].pc = "wait") ~> (inv[p].pc = "done")

-----------------------------------------------------------------------------
(* C22: with invocations interleaved at their awaits, the string each one holds
   is the string the same call yields on its own: the early return of the tool
   for its arguments and the credential, or what its try block and except
   clauses make of its own response. (The allow-list tables are literals of the
   module that no statement assigns to or mutates; they are the same in every
   state.) *)
AloneResults(f) ==
    {handle(f.tool, try_block(f.tool, f.resp, py)).text : py \in PyVersions}
C22_ConcurrentIndependent ==
    \A p \in DOMAIN inv :
        LET f == inv[p]
        IN  /\ ReturnedEarly(f)
                => /\ Pre(f.tool, api_key, f.args).kind = "return"
                   /\ f.result = Pre(f.tool, api_key, f.args).text
            /\ (f.pc = "close" /\ f.sent > 0) => f.result \in AloneResults(f)
            /\ (f.pc \in {"open", "send", "wait"}) => f.result = <<>>
\* two invocations of different tools hold their own, different strings at once
C22_Witness ==
    /\ inv[1].pc = "close" /\ inv[2].pc = "close"
    /\ inv[1].tool = "get_adam_datastructure_info" /\ inv[2].tool = "get_package_ct_info"
    /\ inv[1].resp.json = AdamBody(2) /\ inv[2].resp.json = CtBody(2, 2)
    /\ inv[1].result # inv[2].result
=============================================================================
